---------------------------- MODULE Spec2Model ----------------------------
(***************************************************************************)
(* Bit-banged I2C master (main/drivers/i2c.c) and SSD1306 display driver   *)
(* (main/devices/ssd1306.h) of the ESP32-C3 bare-metal firmware.           *)
(*                                                                         *)
(* The program is modelled as a call stack of frames.  A step is one      *)
(* basic block of one function: the code between two calls, one pin       *)
(* operation of a bus primitive, or a return.  The GPIO output register   *)
(* is the set of pins whose output bit is 1.  A bus monitor watches the   *)
(* two master outputs and records start conditions, stop conditions and   *)
(* the bytes clocked out, as a logic analyser on the wires would.         *)
(***************************************************************************)
EXTENDS Integers, Sequences, FiniteSets, TLC

VARIABLES
    gpio_out,           \* GPIO_OUT_REG: set of pins whose output bit is 1
    gpio_enable,        \* GPIO_ENABLE_REG: set of pins enabled as outputs
    iomux,              \* IO MUX register of each pin
    scl_gpio,           \* i2c.c: static int scl_gpio
    sda_gpio,           \* i2c.c: static int sda_gpio
    i2c_delay_cycles,   \* i2c.c: static uint32_t i2c_delay_cycles
    ssd1306_buffer,     \* ssd1306.h: static uint8_t ssd1306_buffer[1024]
    ssd1306_i2c_addr,   \* ssd1306.h: static uint8_t ssd1306_i2c_addr
    stack,              \* call stack, innermost frame first
    ret,                \* value returned by the last function that returned
    op,                 \* the outermost call in progress, or the last one made
    wire,               \* monitor: events of the current (or last) transaction
    bits,               \* monitor: SDA levels clocked since the last byte boundary
    samples,            \* SDA levels read by sda_read in the current transaction
    ntrans,             \* monitor: transactions begun since the outermost call
    delays,             \* i2c_delay() calls made since the outermost call
    cmds,               \* arguments of the ssd1306_send_command calls of the outermost call
    buffer,             \* console.c: static char buffer[64]
    buffer_pos,         \* console.c: static int buffer_pos
    fifo,               \* writes to the USB Serial/JTAG registers, in order
    input_buffer,       \* shell.c: static char input_buffer[64]
    input_pos,          \* shell.c: static uint8_t input_pos
    display_lines,      \* shell.c: static char display_lines[8][22]
    current_line        \* shell.c: static uint8_t current_line

vars == << gpio_out, gpio_enable, iomux, scl_gpio, sda_gpio, i2c_delay_cycles,
           ssd1306_buffer, ssd1306_i2c_addr, stack, ret, op,
           wire, bits, samples, ntrans, delays, cmds,
           buffer, buffer_pos, fifo,
           input_buffer, input_pos, display_lines, current_line >>

console == << buffer, buffer_pos, fifo >>
shell   == << input_buffer, input_pos, display_lines, current_line >>
app     == << console, shell >>

\* the statics of console.c and shell.c as the C runtime leaves them
AppReset ==
    /\ buffer = [k \in 0..63 |-> 0]
    /\ buffer_pos = 0
    /\ fifo = << >>
    /\ input_buffer = [k \in 0..63 |-> 0]
    /\ input_pos = 0
    /\ display_lines = [i \in 0..7 |-> [k \in 0..21 |-> 0]]
    /\ current_line = 0

hw     == << gpio_enable, iomux, scl_gpio, sda_gpio, i2c_delay_cycles >>
disp   == << ssd1306_buffer, ssd1306_i2c_addr >>

---------------------------------------------------------------------------
(* Program constants *)

SSD1306_WIDTH  == 128
SSD1306_HEIGHT == 64
BUFFER_SIZE    == (SSD1306_WIDTH * SSD1306_HEIGHT) \div 8
GPIO_MAX       == 21
CPU_HZ         == 160000000
SSD1306_FREQ_HZ == 400000
SSD1306_I2C_ADDR_DEFAULT == 60
SSD1306_I2C_ADDR_ALT     == 61
SSD1306_CONTROL_CMD_SINGLE  == 128
SSD1306_CONTROL_DATA_STREAM == 64

SSD1306_CMD_SET_CONTRAST          == 129
SSD1306_CMD_DISPLAY_ALL_ON_RESUME == 164
SSD1306_CMD_NORMAL_DISPLAY        == 166
SSD1306_CMD_INVERT_DISPLAY        == 167
SSD1306_CMD_DISPLAY_OFF           == 174
SSD1306_CMD_DISPLAY_ON            == 175
SSD1306_CMD_SET_DISPLAY_OFFSET    == 211
SSD1306_CMD_SET_START_LINE        == 64
SSD1306_CMD_MEMORY_MODE           == 32
SSD1306_CMD_COLUMN_ADDR           == 33
SSD1306_CMD_PAGE_ADDR             == 34
SSD1306_CMD_SET_COM_PINS          == 218
SSD1306_CMD_SET_DISPLAY_CLK_DIV   == 213
SSD1306_CMD_SET_PRECHARGE         == 217
SSD1306_CMD_SET_VCOM_DETECT       == 219
SSD1306_CMD_SET_MULTIPLEX         == 168
SSD1306_CMD_SEG_REMAP             == 160
SSD1306_CMD_COM_SCAN_DEC          == 200
SSD1306_CMD_CHARGE_PUMP           == 141

(* Bounds of the model *)

MaxLen == 2         \* longest payload handed to i2c_write / i2c_write_reg

---------------------------------------------------------------------------
(* Integer helpers for C's uint8_t arithmetic *)

Pow2(n) == 2 ^ n

\* (v >> i) & 1
Bit(v, i) == (v \div Pow2(i)) % 2

\* (uint8_t) v
U8(v) == v % 256

\* byte |= (1 << b)
OrBit(byte, b)  == IF Bit(byte, b) = 1 THEN byte ELSE byte + Pow2(b)
\* byte &= ~(1 << b)
ClrBit(byte, b) == IF Bit(byte, b) = 1 THEN byte - Pow2(b) ELSE byte

\* the sequence data[0], ..., data[n-1] of a zero-based array
ArrSeq(a, n) == [k \in 1..n |-> a[k - 1]]

\* the value of eight levels, first one most significant
RECURSIVE BitsVal(_)
BitsVal(s) == IF s = << >> THEN 0
              ELSE 2 * BitsVal(SubSeq(s, 1, Len(s) - 1)) + s[Len(s)]

Last(s) == s[Len(s)]

---------------------------------------------------------------------------
(* Pin levels and the bus monitor *)

Level(out, pin) == IF pin \in out THEN 1 ELSE 0

SCL == Level(gpio_out, scl_gpio)
SDA == Level(gpio_out, sda_gpio)

EvStart == << "S" >>
EvStop  == << "P" >>
EvByte(b, slot) == << "B", b, slot >>
EvBroken == << "X" >>

\* the output register together with what the monitor has recorded
Mon == [out |-> gpio_out, wire |-> wire, bits |-> bits,
        samples |-> samples, ntrans |-> ntrans,
        delays |-> delays]

SetMon(m) ==
    /\ gpio_out' = m.out
    /\ wire' = m.wire
    /\ bits' = m.bits
    /\ samples' = m.samples
    /\ ntrans' = m.ntrans
    /\ delays' = m.delays

\* What the monitor records when the output register changes to newOut:
\*   SDA falling while SCL stays high: start condition (a new capture when
\*   the bus was idle)
\*   SDA rising while SCL stays high: stop condition
\*   SCL rising: SDA is clocked; the ninth clocked level closes a byte
MonStep(m, newOut) ==
    LET scl0 == Level(m.out, scl_gpio)
        scl1 == Level(newOut, scl_gpio)
        sda0 == Level(m.out, sda_gpio)
        sda1 == Level(newOut, sda_gpio)
        idle == m.wire = << >> \/ Last(m.wire) = EvStop
        partial == IF Len(m.bits) > 1 THEN << EvBroken >> ELSE << >>
    IN  IF scl0 = 1 /\ scl1 = 1 /\ sda0 = 1 /\ sda1 = 0
        THEN [out |-> newOut,
              wire |-> IF idle THEN << EvStart >> ELSE m.wire \o partial \o << EvStart >>,
              bits |-> << >>,
              samples |-> IF idle THEN << >> ELSE m.samples,
              ntrans |-> IF idle THEN m.ntrans + 1 ELSE m.ntrans,
              delays |-> m.delays]
        ELSE IF scl0 = 1 /\ scl1 = 1 /\ sda0 = 0 /\ sda1 = 1
        THEN [m EXCEPT !.out = newOut,
                       !.wire = m.wire \o partial \o << EvStop >>,
                       !.bits = << >>]
        ELSE IF scl0 = 0 /\ scl1 = 1
        THEN IF Len(m.bits) = 8
             THEN [m EXCEPT !.out = newOut,
                            !.wire = Append(m.wire, EvByte(BitsVal(m.bits), sda1)),
                            !.bits = << >>]
             ELSE [m EXCEPT !.out = newOut, !.bits = Append(m.bits, sda1)]
        ELSE [m EXCEPT !.out = newOut]

\* the four pin operations of i2c.c, as written in the bodies below
SCL_HIGH == << "scl", 1 >>      \* scl_high(): W1TS of the clock pin, i2c_delay()
SCL_LOW  == << "scl", 0 >>      \* scl_low():  W1TC of the clock pin, i2c_delay()
SDA_HIGH == << "sda", 1 >>      \* sda_high(): W1TS of the data pin, i2c_delay()
SDA_LOW  == << "sda", 0 >>      \* sda_low():  W1TC of the data pin, i2c_delay()

\* REG_WRITE(GPIO_OUT_W1TS_REG, 1 << pin) / REG_WRITE(GPIO_OUT_W1TC_REG, 1 << pin)
\* followed by i2c_delay()
PinOp(m, o) ==
    LET pin == IF o[1] = "scl" THEN scl_gpio ELSE sda_gpio
        n   == MonStep(m, IF o[2] = 1 THEN m.out \cup {pin} ELSE m.out \ {pin})
    IN  [n EXCEPT !.delays = m.delays + 1]

\* pin operations one after the other (n is bound by a set so that each
\* intermediate state is computed before the next operation is applied)
RECURSIVE RunOps(_, _)
RunOps(m, ops) ==
    IF ops = << >>
    THEN m
    ELSE CHOOSE r \in { RunOps(n, Tail(ops)) : n \in { PinOp(m, Head(ops)) } } : TRUE

\* sda_read(): the levels GPIO_IN_REG can show for the data pin.  The line is
\* open drain: low when the master drives it low, and otherwise whatever the
\* remote device makes it.
\* A call can be made against a given remote device: "absent" never pulls
\* the line, "low" holds it low for good; otherwise the device is arbitrary.
SdaInputs(out) ==
    IF Level(out, sda_gpio) = 0 THEN {0}
    ELSE IF "device" \in DOMAIN op
         THEN (IF op.device = "absent" THEN {1} ELSE {0})
         ELSE {0, 1}

---------------------------------------------------------------------------
(* Call stack *)

Top == Head(stack)
At(f, p) == stack # << >> /\ Top.fn = f /\ Top.pc = p

\* continue in the same frame at label p
Goto(p) == stack' = << [Top EXCEPT !.pc = p] >> \o Tail(stack)
\* call: push frame fr, the caller resumes at label p
Call(fr, p) == stack' = << fr, [Top EXCEPT !.pc = p] >> \o Tail(stack)
\* return v to the caller
Return(v) == stack' = Tail(stack) /\ ret' = v

NoPins == UNCHANGED << gpio_out, wire, bits, samples, ntrans, delays >>

F_start         == [fn |-> "i2c_start", pc |-> 1]
F_stop          == [fn |-> "i2c_stop", pc |-> 1]
F_write_byte(d) == [fn |-> "i2c_write_byte", pc |-> 1, data |-> d, ack |-> FALSE]

\* a const uint8_t * argument: the framebuffer, or an array of the caller
PtrBuffer   == [to |-> "ssd1306_buffer"]
PtrArr(a)   == [to |-> "array", val |-> a]

\* mutant: the framebuffer is read one byte ahead
Deref_OneAhead(p, i) ==
    IF p.to = "ssd1306_buffer" THEN ssd1306_buffer[(i + 1) % BUFFER_SIZE] ELSE p.val[i + 1]

Deref(p, i) == IF p.to = "ssd1306_buffer" THEN ssd1306_buffer[i] ELSE p.val[i + 1]

---------------------------------------------------------------------------
(* i2c.c: bus primitives.  The body of a primitive is its pin operations   *)
(* in program order; a step of the primitive is its next pin operation.    *)

\* mutant: the clock is pulled low before the data line
StartOps_ClockFirst == << SDA_HIGH, SCL_HIGH, SCL_LOW, SDA_LOW >>

\* i2c_start: sda_high(); scl_high(); sda_low(); scl_low(); return true;
StartOps == << SDA_HIGH, SCL_HIGH, SDA_LOW, SCL_LOW >>

\* mutant: the data line is released before the clock is raised
StopOps_DataFirst == << SDA_LOW, SDA_HIGH, SCL_HIGH >>

\* i2c_stop: sda_low(); scl_high(); sda_high();
StopOps == << SDA_LOW, SCL_HIGH, SDA_HIGH >>

\* mutant: the data bits go out least significant first
RECURSIVE BitLoop_LsbFirst(_, _)
BitLoop_LsbFirst(data, i) ==
    IF i >= 0
    THEN << IF Bit(data, 7 - i) # 0 THEN SDA_HIGH ELSE SDA_LOW, SCL_HIGH, SCL_LOW >>
         \o BitLoop_LsbFirst(data, i - 1)
    ELSE << >>

\* mutant: the clock is left high after each data bit
RECURSIVE BitLoop_NoClockLow(_, _)
BitLoop_NoClockLow(data, i) ==
    IF i >= 0
    THEN << IF Bit(data, i) # 0 THEN SDA_HIGH ELSE SDA_LOW, SCL_HIGH >>
         \o BitLoop_NoClockLow(data, i - 1)
    ELSE << >>

\* i2c_write_byte: for (int i = 7; i >= 0; i--) {
\*     if (data & (1 << i)) sda_high(); else sda_low();  scl_high();  scl_low(); }
RECURSIVE BitLoop(_, _)
BitLoop(data, i) ==
    IF i >= 0
    THEN << IF Bit(data, i) # 0 THEN SDA_HIGH ELSE SDA_LOW, SCL_HIGH, SCL_LOW >>
         \o BitLoop(data, i - 1)
    ELSE << >>

\* i2c_write_byte up to the sample: the bit loop, sda_high(); scl_high();
WriteByteOps(data) == BitLoop(data, 7) \o << SDA_HIGH, SCL_HIGH >>

\* mutant: the acknowledge polarity is inverted
AckOf_ActiveHigh(lvl) == lvl # 0

\* bool ack = !sda_read();
AckOf(lvl) == lvl = 0

\* bool i2c_start(void)
i2c_start ==
    /\ stack # << >> /\ Top.fn = "i2c_start"
    /\ UNCHANGED << hw, disp, op, cmds >>
    /\ SetMon(PinOp(Mon, StartOps[Top.pc]))
    /\ IF Top.pc < Len(StartOps)
       THEN Goto(Top.pc + 1) /\ UNCHANGED ret
       ELSE Return(TRUE)
    /\ UNCHANGED app

\* void i2c_stop(void)
i2c_stop ==
    /\ stack # << >> /\ Top.fn = "i2c_stop"
    /\ UNCHANGED << hw, disp, op, cmds >>
    /\ SetMon(PinOp(Mon, StopOps[Top.pc]))
    /\ IF Top.pc < Len(StopOps)
       THEN Goto(Top.pc + 1) /\ UNCHANGED ret
       ELSE Return(ret)
    /\ UNCHANGED app

\* bool i2c_write_byte(uint8_t data)
i2c_write_byte ==
    /\ stack # << >> /\ Top.fn = "i2c_write_byte"
    /\ UNCHANGED << hw, disp, op, cmds >>
    /\ LET ops == WriteByteOps(Top.data)
       IN  \/ /\ Top.pc <= Len(ops)
              /\ SetMon(PinOp(Mon, ops[Top.pc]))
              /\ Goto(Top.pc + 1)
              /\ UNCHANGED ret
           \/ /\ Top.pc = Len(ops) + 1
              /\ \E lvl \in SdaInputs(gpio_out) :
                    /\ samples' = Append(samples, lvl)
                    /\ stack' = << [Top EXCEPT !.ack = AckOf(lvl), !.pc = Top.pc + 1] >>
                                \o Tail(stack)
              /\ UNCHANGED << gpio_out, wire, bits, ntrans, delays, ret >>
           \/ /\ Top.pc = Len(ops) + 2
              /\ SetMon(PinOp(Mon, SCL_LOW))
              /\ Return(Top.ack)
    /\ UNCHANGED app

F_read_byte(a) == [fn |-> "i2c_read_byte", pc |-> 1, ack |-> a, data |-> 0, i |-> 7]

\* mutant: the first sample lands in bit 0
ReadBit_LsbFirst(data, i, lvl) == IF lvl # 0 THEN OrBit(data, 7 - i) ELSE data

\* if (sda_read()) { data |= (1 << i); }
ReadBit(data, i, lvl) == IF lvl # 0 THEN OrBit(data, i) ELSE data

\* mutant: the acknowledge level is inverted
AckOp_Inverted(ack) == IF ack THEN SDA_HIGH ELSE SDA_LOW

\* if (ack) sda_low(); else sda_high();
AckOp(ack) == IF ack THEN SDA_LOW ELSE SDA_HIGH

\* uint8_t i2c_read_byte(bool ack); ret holds the bool results, the byte this
\* call returns is handed to its caller in op.result
\*   pc 1: sda_high();
\*   pc 2..4: for (i = 7; i >= 0; i--) { scl_high(); sample; scl_low(); }
\*   pc 5..8: acknowledge level; scl_high(); scl_low(); sda_high(); return data;
i2c_read_byte ==
    /\ stack # << >> /\ Top.fn = "i2c_read_byte"
    /\ UNCHANGED << hw, disp, cmds >>
    /\ \/ /\ Top.pc = 1
          /\ SetMon(PinOp(Mon, SDA_HIGH))
          /\ Goto(2)
          /\ UNCHANGED << ret, op >>
       \/ /\ Top.pc = 2
          /\ SetMon(PinOp(Mon, SCL_HIGH))
          /\ Goto(3)
          /\ UNCHANGED << ret, op >>
       \/ /\ Top.pc = 3
          /\ \E lvl \in SdaInputs(gpio_out) :
                /\ samples' = Append(samples, lvl)
                /\ stack' = << [Top EXCEPT !.data = ReadBit(Top.data, Top.i, lvl),
                                           !.pc = 4] >> \o Tail(stack)
          /\ UNCHANGED << gpio_out, wire, bits, ntrans, delays, ret, op >>
       \/ /\ Top.pc = 4
          /\ SetMon(PinOp(Mon, SCL_LOW))
          /\ stack' = << [Top EXCEPT !.i = Top.i - 1,
                                     !.pc = IF Top.i - 1 >= 0 THEN 2 ELSE 5] >>
                      \o Tail(stack)
          /\ UNCHANGED << ret, op >>
       \/ /\ Top.pc = 5
          /\ SetMon(PinOp(Mon, AckOp(Top.ack)))
          /\ Goto(6)
          /\ UNCHANGED << ret, op >>
       \/ /\ Top.pc = 6
          /\ SetMon(PinOp(Mon, SCL_HIGH))
          /\ Goto(7)
          /\ UNCHANGED << ret, op >>
       \/ /\ Top.pc = 7
          /\ SetMon(PinOp(Mon, SCL_LOW))
          /\ Goto(8)
          /\ UNCHANGED << ret, op >>
       \/ /\ Top.pc = 8
          /\ SetMon(PinOp(Mon, SDA_HIGH))
          /\ stack' = Tail(stack)
          /\ op' = [op EXCEPT !.result = Top.data]
          /\ UNCHANGED ret
    /\ UNCHANGED app

(* The same primitives, a whole call in one step: the pin operations are   *)
(* applied in the same order within the step.  These steps do not keep the *)
(* count of i2c_delay() calls.                                             *)

Uncounted(m) == [m EXCEPT !.delays = delays]

i2c_start_call ==
    /\ At("i2c_start", 1)
    /\ UNCHANGED << hw, disp, op, cmds >>
    /\ SetMon(Uncounted(RunOps(Mon, StartOps)))
    /\ Return(TRUE)
    /\ UNCHANGED app

i2c_stop_call ==
    /\ At("i2c_stop", 1)
    /\ UNCHANGED << hw, disp, op, cmds >>
    /\ SetMon(Uncounted(RunOps(Mon, StopOps)))
    /\ Return(ret)
    /\ UNCHANGED app

i2c_write_byte_call ==
    /\ At("i2c_write_byte", 1)
    /\ UNCHANGED << hw, disp, op, cmds >>
    /\ LET m1 == RunOps(Mon, WriteByteOps(Top.data))
       IN  \E lvl \in SdaInputs(m1.out) :
              /\ SetMon(Uncounted(PinOp([m1 EXCEPT !.samples = Append(@, lvl)], SCL_LOW)))
              /\ Return(AckOf(lvl))
    /\ UNCHANGED app

---------------------------------------------------------------------------
(* i2c.c: write transactions *)

\* mutant: the loop stops one byte early (i < len - 1)
PayloadLoop_OffByOne(from) ==
    IF from + 1 < Top.len
    THEN stack' = << F_write_byte(Deref(Top.data, from)),
                     [Top EXCEPT !.i = from, !.pc = "after_data"] >> \o Tail(stack)
    ELSE stack' = << F_stop, [Top EXCEPT !.i = from, !.pc = "ret_true"] >>
                  \o Tail(stack)

\* mutant: the loop index is never advanced (i++ is missing)
PayloadLoop_NoAdvance(from) ==
    IF Top.i < Top.len
    THEN stack' = << F_write_byte(Deref(Top.data, Top.i)),
                     [Top EXCEPT !.pc = "after_data"] >> \o Tail(stack)
    ELSE stack' = << F_stop, [Top EXCEPT !.pc = "ret_true"] >> \o Tail(stack)

\* the payload loop shared by the three write transactions:
\*   for (i = from; i < len; i++) if (!i2c_write_byte(data[i])) {...}
\*   i2c_stop(); return true;
PayloadLoop(from) ==
    IF from < Top.len
    THEN stack' = << F_write_byte(Deref(Top.data, from)),
                     [Top EXCEPT !.i = from, !.pc = "after_data"] >> \o Tail(stack)
    ELSE stack' = << F_stop, [Top EXCEPT !.i = from, !.pc = "ret_true"] >>
                  \o Tail(stack)

\* mutant: the error path returns without a stop
Abort_NoStop == Goto("ret_false")

\* mutant: after the stop the transaction is started over
Abort_Retry == Call(F_stop, "entry")

\* i2c_stop(); return false;
Abort == Call(F_stop, "ret_false")

\* mutant: the result of i2c_write_byte is not looked at
IfNack_Ignored(abort, goOn) == goOn

\* if (!i2c_write_byte(...)) { i2c_stop(); return false; } else go on
IfNack(abort, goOn) == IF ~ret THEN abort ELSE goOn

\* mutant: the address is sent as the caller passed it
AddrByte_Unshifted(addr) == U8(addr)

\* i2c_write_byte(addr << 1): the uint8_t argument
AddrByte(addr) == U8(addr * 2)

F_i2c_write(a, d, n) ==
    [fn |-> "i2c_write", pc |-> "entry", addr |-> a, data |-> d, len |-> n, i |-> 0]

\* bool i2c_write(uint8_t addr, const uint8_t *data, uint32_t len)
i2c_write ==
    /\ stack # << >> /\ Top.fn = "i2c_write"
    /\ NoPins
    /\ UNCHANGED << hw, disp, op, cmds >>
    /\ \/ /\ Top.pc = "entry"
          /\ Call(F_start, "after_start")
          /\ UNCHANGED ret
       \/ /\ Top.pc = "after_start"
          /\ IF ~ret THEN Return(FALSE)
             ELSE Call(F_write_byte(AddrByte(Top.addr)), "after_addr") /\ UNCHANGED ret
       \/ /\ Top.pc = "after_addr"
          /\ IfNack(Abort, PayloadLoop(0))
          /\ UNCHANGED ret
       \/ /\ Top.pc = "after_data"
          /\ IfNack(Abort, PayloadLoop(Top.i + 1))
          /\ UNCHANGED ret
       \/ /\ Top.pc = "ret_false" /\ Return(FALSE)
       \/ /\ Top.pc = "ret_true"  /\ Return(TRUE)
    /\ UNCHANGED app

F_i2c_write_reg(a, r, d, n) ==
    [fn |-> "i2c_write_reg", pc |-> "entry", addr |-> a, reg |-> r,
     data |-> d, len |-> n, i |-> 0]

\* bool i2c_write_reg(uint8_t addr, uint8_t reg, const uint8_t *data, uint32_t len)
i2c_write_reg ==
    /\ stack # << >> /\ Top.fn = "i2c_write_reg"
    /\ NoPins
    /\ UNCHANGED << hw, disp, op, cmds >>
    /\ \/ /\ Top.pc = "entry"
          /\ Call(F_start, "after_start")
          /\ UNCHANGED ret
       \/ /\ Top.pc = "after_start"
          /\ IF ~ret THEN Return(FALSE)
             ELSE Call(F_write_byte(AddrByte(Top.addr)), "after_addr") /\ UNCHANGED ret
       \/ /\ Top.pc = "after_addr"
          /\ IfNack(Abort, Call(F_write_byte(Top.reg), "after_reg"))
          /\ UNCHANGED ret
       \/ /\ Top.pc = "after_reg"
          /\ IfNack(Abort, PayloadLoop(0))
          /\ UNCHANGED ret
       \/ /\ Top.pc = "after_data"
          /\ IfNack(Abort, PayloadLoop(Top.i + 1))
          /\ UNCHANGED ret
       \/ /\ Top.pc = "ret_false" /\ Return(FALSE)
       \/ /\ Top.pc = "ret_true"  /\ Return(TRUE)
    /\ UNCHANGED app

---------------------------------------------------------------------------
(* ssd1306.h: transactions of the display driver *)

F_send_data(d, n) ==
    [fn |-> "ssd1306_send_data", pc |-> "entry", data |-> d, len |-> n, i |-> 0]

\* static bool ssd1306_send_data(const uint8_t *data, uint32_t len)
ssd1306_send_data ==
    /\ stack # << >> /\ Top.fn = "ssd1306_send_data"
    /\ NoPins
    /\ UNCHANGED << hw, disp, op, cmds >>
    /\ \/ /\ Top.pc = "entry"
          /\ Call(F_start, "after_start")
          /\ UNCHANGED ret
       \/ /\ Top.pc = "after_start"
          /\ IF ~ret THEN Return(FALSE)
             ELSE Call(F_write_byte(AddrByte(ssd1306_i2c_addr)), "after_addr")
                  /\ UNCHANGED ret
       \/ /\ Top.pc = "after_addr"
          /\ IfNack(Abort,
                    Call(F_write_byte(SSD1306_CONTROL_DATA_STREAM), "after_ctrl"))
          /\ UNCHANGED ret
       \/ /\ Top.pc = "after_ctrl"
          /\ IfNack(Abort, PayloadLoop(0))
          /\ UNCHANGED ret
       \/ /\ Top.pc = "after_data"
          /\ IfNack(Abort, PayloadLoop(Top.i + 1))
          /\ UNCHANGED ret
       \/ /\ Top.pc = "ret_false" /\ Return(FALSE)
       \/ /\ Top.pc = "ret_true"  /\ Return(TRUE)
    /\ UNCHANGED app

---------------------------------------------------------------------------
(* i2c.c: pin configuration and i2c_init *)

\* the IO MUX register fields gpio_set_opendrain writes
MuxOpenDrain == [mcu_sel |-> 1, fun_ie |-> 1, fun_wpu |-> 1, fun_wpd |-> 0, fun_drv |-> 2]
MuxReset     == [mcu_sel |-> 0, fun_ie |-> 0, fun_wpu |-> 0, fun_wpd |-> 0, fun_drv |-> 0]

\* static void gpio_set_opendrain(int gpio_num): the IO MUX registers it leaves
OpenDrainMux(mux, n) ==
    IF n < 0 \/ n > GPIO_MAX THEN mux
    ELSE [mux EXCEPT ![n] = [@ EXCEPT !.mcu_sel = 1, !.fun_ie = 1, !.fun_wpu = 1,
                                      !.fun_wpd = 0, !.fun_drv = 2]]

\* mutant: only negative indices are refused
OpenDrainEnable_NoUpper(en, n) ==
    IF n < 0 THEN en ELSE en \cup {n}

\* ... and the output enable register it leaves
OpenDrainEnable(en, n) ==
    IF n < 0 \/ n > GPIO_MAX THEN en ELSE en \cup {n}

\* mutant: the delay is half the bit period, not a quarter
DelayCycles_HalfPeriod(freq_hz) == (CPU_HZ \div freq_hz) \div 2

\* i2c_delay_cycles = (160000000 / config->freq_hz) / 4;  in uint32_t; no
\* quotient exceeds 160000000
DelayCycles(freq_hz) == (CPU_HZ \div freq_hz) \div 4

\* ... and its register accesses, in order
OpenDrainAccesses(n) ==
    IF n < 0 \/ n > GPIO_MAX THEN << >>
    ELSE << << "read", "IO_MUX", n >>, << "write", "IO_MUX", n >>,
            << "read", "GPIO_ENABLE" >>, << "write", "GPIO_ENABLE" >> >>

\* void gpio_set_output(int gpio_num): the IO MUX registers it leaves
OutputMux(mux, n) ==
    IF n < 0 \/ n > 21 THEN mux
    ELSE [mux EXCEPT ![n] = [@ EXCEPT !.mcu_sel = 1, !.fun_drv = 2]]

\* ... the output enable register it leaves
OutputEnable(en, n) ==
    IF n < 0 \/ n > 21 THEN en ELSE en \cup {n}

\* ... and its register accesses, in order
OutputAccesses(n) ==
    IF n < 0 \/ n > 21 THEN << >>
    ELSE << << "read", "IO_MUX", n >>, << "write", "IO_MUX", n >>,
            << "read", "GPIO_ENABLE" >>, << "write", "GPIO_ENABLE" >> >>

F_i2c_init(cfg) == [fn |-> "i2c_init", pc |-> 1, config |-> cfg]

\* void i2c_init(const i2c_config_t *config)
i2c_init ==
    /\ stack # << >> /\ Top.fn = "i2c_init"
    /\ UNCHANGED << disp, op, cmds >>
    /\ \/ /\ Top.pc = 1
          /\ scl_gpio' = Top.config.scl_pin
          /\ sda_gpio' = Top.config.sda_pin
          /\ i2c_delay_cycles' = DelayCycles(Top.config.freq_hz)
          /\ iomux' = OpenDrainMux(iomux, Top.config.scl_pin)
          /\ gpio_enable' = OpenDrainEnable(gpio_enable, Top.config.scl_pin)
          /\ Goto(2)
          /\ NoPins
          /\ UNCHANGED ret
       \/ /\ Top.pc = 2
          /\ iomux' = OpenDrainMux(iomux, sda_gpio)
          /\ gpio_enable' = OpenDrainEnable(gpio_enable, sda_gpio)
          /\ Goto(3)
          /\ NoPins
          /\ UNCHANGED << scl_gpio, sda_gpio, i2c_delay_cycles, ret >>
       \/ /\ Top.pc = 3
          /\ SetMon(PinOp(Mon, SDA_HIGH))
          /\ Goto(4)
          /\ UNCHANGED << hw, ret >>
       \/ /\ Top.pc = 4
          /\ SetMon(PinOp(Mon, SCL_HIGH))
          /\ Return(ret)
          /\ UNCHANGED hw
    /\ UNCHANGED app

---------------------------------------------------------------------------
(* ssd1306.h: commands, bring-up and refresh *)

F_send_command(c) == [fn |-> "ssd1306_send_command", pc |-> "entry", cmd |-> c]

\* mutant: a command is tagged with the data-stream control byte
CommandPacket_DataTag(cmd) == << SSD1306_CONTROL_DATA_STREAM, cmd >>

\* uint8_t data[2] = {SSD1306_CONTROL_CMD_SINGLE, cmd};
CommandPacket(cmd) == << SSD1306_CONTROL_CMD_SINGLE, cmd >>

\* static bool ssd1306_send_command(uint8_t cmd)
ssd1306_send_command ==
    /\ stack # << >> /\ Top.fn = "ssd1306_send_command"
    /\ NoPins
    /\ UNCHANGED << hw, disp, op >>
    /\ \/ /\ Top.pc = "entry"
          /\ Call(F_i2c_write(ssd1306_i2c_addr, PtrArr(CommandPacket(Top.cmd)), 2),
                  "after")
          /\ cmds' = Append(cmds, Top.cmd)
          /\ UNCHANGED ret
       \/ /\ Top.pc = "after"
          /\ Return(ret)
          /\ UNCHANGED cmds
    /\ UNCHANGED app

\* mutant: the display is turned on twice at the end of the bring-up
InitCmds_TwiceOn ==
    << SSD1306_CMD_DISPLAY_OFF,
       SSD1306_CMD_SET_DISPLAY_CLK_DIV, 128,
       SSD1306_CMD_SET_MULTIPLEX, SSD1306_HEIGHT - 1,
       SSD1306_CMD_SET_DISPLAY_OFFSET, 0,
       SSD1306_CMD_SET_START_LINE + 0,
       SSD1306_CMD_CHARGE_PUMP, 20,
       SSD1306_CMD_MEMORY_MODE, 0,
       SSD1306_CMD_SEG_REMAP + 1,
       SSD1306_CMD_COM_SCAN_DEC,
       SSD1306_CMD_SET_COM_PINS, 18,
       SSD1306_CMD_SET_CONTRAST, 207,
       SSD1306_CMD_SET_PRECHARGE, 241,
       SSD1306_CMD_SET_VCOM_DETECT, 64,
       SSD1306_CMD_DISPLAY_ALL_ON_RESUME,
       SSD1306_CMD_NORMAL_DISPLAY,
       SSD1306_CMD_DISPLAY_ON,
       SSD1306_CMD_DISPLAY_ON >>

\* mutant: the segment re-map command is left out of the bring-up
InitCmds_NoSegRemap ==
    << SSD1306_CMD_DISPLAY_OFF,
       SSD1306_CMD_SET_DISPLAY_CLK_DIV, 128,
       SSD1306_CMD_SET_MULTIPLEX, SSD1306_HEIGHT - 1,
       SSD1306_CMD_SET_DISPLAY_OFFSET, 0,
       SSD1306_CMD_SET_START_LINE + 0,
       SSD1306_CMD_CHARGE_PUMP, 20,
       SSD1306_CMD_MEMORY_MODE, 0,
       SSD1306_CMD_COM_SCAN_DEC,
       SSD1306_CMD_SET_COM_PINS, 18,
       SSD1306_CMD_SET_CONTRAST, 207,
       SSD1306_CMD_SET_PRECHARGE, 241,
       SSD1306_CMD_SET_VCOM_DETECT, 64,
       SSD1306_CMD_DISPLAY_ALL_ON_RESUME,
       SSD1306_CMD_NORMAL_DISPLAY,
       SSD1306_CMD_DISPLAY_ON >>

\* the arguments of the ssd1306_send_command calls of ssd1306_init, in order
InitCmds ==
    << SSD1306_CMD_DISPLAY_OFF,
       SSD1306_CMD_SET_DISPLAY_CLK_DIV, 128,
       SSD1306_CMD_SET_MULTIPLEX, SSD1306_HEIGHT - 1,
       SSD1306_CMD_SET_DISPLAY_OFFSET, 0,
       SSD1306_CMD_SET_START_LINE + 0,
       SSD1306_CMD_CHARGE_PUMP, 20,
       SSD1306_CMD_MEMORY_MODE, 0,
       SSD1306_CMD_SEG_REMAP + 1,
       SSD1306_CMD_COM_SCAN_DEC,
       SSD1306_CMD_SET_COM_PINS, 18,
       SSD1306_CMD_SET_CONTRAST, 207,
       SSD1306_CMD_SET_PRECHARGE, 241,
       SSD1306_CMD_SET_VCOM_DETECT, 64,
       SSD1306_CMD_DISPLAY_ALL_ON_RESUME,
       SSD1306_CMD_NORMAL_DISPLAY,
       SSD1306_CMD_DISPLAY_ON >>

\* mutant: the page address range is not set
DisplayCmds_NoPageRange == << SSD1306_CMD_COLUMN_ADDR, 0, SSD1306_WIDTH - 1 >>

\* the arguments of the ssd1306_send_command calls of ssd1306_display, in order
DisplayCmds ==
    << SSD1306_CMD_COLUMN_ADDR, 0, SSD1306_WIDTH - 1,
       SSD1306_CMD_PAGE_ADDR, 0, (SSD1306_HEIGHT \div 8) - 1 >>

F_display == [fn |-> "ssd1306_display", pc |-> 1]

\* void ssd1306_display(void)
ssd1306_display ==
    /\ stack # << >> /\ Top.fn = "ssd1306_display"
    /\ NoPins
    /\ UNCHANGED << hw, disp, op, cmds >>
    /\ \/ /\ Top.pc <= Len(DisplayCmds)
          /\ Call(F_send_command(DisplayCmds[Top.pc]), Top.pc + 1)
          /\ UNCHANGED ret
       \/ /\ Top.pc = Len(DisplayCmds) + 1
          /\ Call(F_send_data(PtrBuffer, BUFFER_SIZE), Top.pc + 1)
          /\ UNCHANGED ret
       \/ /\ Top.pc = Len(DisplayCmds) + 2
          /\ Return(ret)
    /\ UNCHANGED app

\* mutant: memset with 0xFF
ClearedBuffer_AllOn == [k \in 0..(BUFFER_SIZE - 1) |-> 255]

\* void ssd1306_clear(void): the buffer memset leaves
ClearedBuffer == [k \in 0..(BUFFER_SIZE - 1) |-> 0]

\* mutant: the result of the last transfer is handed on
InitResult_Checked(sent) == sent

\* ssd1306_init: return true; whatever the transfers returned
InitResult(sent) == TRUE

F_ssd1306_init(cfg) == [fn |-> "ssd1306_init", pc |-> 0, config |-> cfg]

\* bool ssd1306_init(const ssd1306_config_t *config)
\* pc 0: address and i2c_init; pc k: the k-th command; then clear and display
ssd1306_init ==
    /\ stack # << >> /\ Top.fn = "ssd1306_init"
    /\ NoPins
    /\ UNCHANGED << hw, op, cmds >>
    /\ \/ /\ Top.pc = 0
          /\ ssd1306_i2c_addr' = Top.config.i2c_addr
          /\ Call(F_i2c_init([scl_pin |-> Top.config.scl_pin,
                              sda_pin |-> Top.config.sda_pin,
                              freq_hz |-> SSD1306_FREQ_HZ]), 1)
          /\ UNCHANGED << ssd1306_buffer, ret >>
       \/ /\ Top.pc \in 1..Len(InitCmds)
          /\ Call(F_send_command(InitCmds[Top.pc]), Top.pc + 1)
          /\ UNCHANGED << disp, ret >>
       \/ /\ Top.pc = Len(InitCmds) + 1
          /\ ssd1306_buffer' = ClearedBuffer
          /\ Call(F_display, Top.pc + 1)
          /\ UNCHANGED << ssd1306_i2c_addr, ret >>
       \/ /\ Top.pc = Len(InitCmds) + 2
          /\ Return(InitResult(ret))
          /\ UNCHANGED disp
    /\ UNCHANGED app

F_set_contrast(c) == [fn |-> "ssd1306_set_contrast", pc |-> 1, contrast |-> c]

\* mutant: the level is sent without the set-contrast command before it
ssd1306_set_contrast_LevelOnly ==
    /\ stack # << >> /\ Top.fn = "ssd1306_set_contrast"
    /\ NoPins
    /\ UNCHANGED << hw, disp, op, cmds >>
    /\ \/ /\ Top.pc \in {1, 2}
          /\ Call(F_send_command(Top.contrast), 3)
          /\ UNCHANGED ret
       \/ /\ Top.pc = 3
          /\ Return(ret)
    /\ UNCHANGED app

\* void ssd1306_set_contrast(uint8_t contrast)
ssd1306_set_contrast ==
    /\ stack # << >> /\ Top.fn = "ssd1306_set_contrast"
    /\ NoPins
    /\ UNCHANGED << hw, disp, op, cmds >>
    /\ \/ /\ Top.pc = 1
          /\ Call(F_send_command(SSD1306_CMD_SET_CONTRAST), 2)
          /\ UNCHANGED ret
       \/ /\ Top.pc = 2
          /\ Call(F_send_command(Top.contrast), 3)
          /\ UNCHANGED ret
       \/ /\ Top.pc = 3
          /\ Return(ret)
    /\ UNCHANGED app

F_display_on(b) == [fn |-> "ssd1306_display_on", pc |-> 1, on |-> b]

\* void ssd1306_display_on(bool on)
ssd1306_display_on ==
    /\ stack # << >> /\ Top.fn = "ssd1306_display_on"
    /\ NoPins
    /\ UNCHANGED << hw, disp, op, cmds >>
    /\ \/ /\ Top.pc = 1
          /\ Call(F_send_command(IF Top.on THEN SSD1306_CMD_DISPLAY_ON
                                 ELSE SSD1306_CMD_DISPLAY_OFF), 2)
          /\ UNCHANGED ret
       \/ /\ Top.pc = 2
          /\ Return(ret)
    /\ UNCHANGED app

F_invert_display(b) == [fn |-> "ssd1306_invert_display", pc |-> 1, invert |-> b]

\* void ssd1306_invert_display(bool invert)
ssd1306_invert_display ==
    /\ stack # << >> /\ Top.fn = "ssd1306_invert_display"
    /\ NoPins
    /\ UNCHANGED << hw, disp, op, cmds >>
    /\ \/ /\ Top.pc = 1
          /\ Call(F_send_command(IF Top.invert THEN SSD1306_CMD_INVERT_DISPLAY
                                 ELSE SSD1306_CMD_NORMAL_DISPLAY), 2)
          /\ UNCHANGED ret
       \/ /\ Top.pc = 2
          /\ Return(ret)
    /\ UNCHANGED app

---------------------------------------------------------------------------
(* The state the firmware is in once ssd1306_init has returned *)

\* the configurations the firmware is booted with: the one of app_main, and the
\* alternate device address on another pin pair
Configs == { [i2c_addr |-> SSD1306_I2C_ADDR_DEFAULT, scl_pin |-> 7, sda_pin |-> 6],
             [i2c_addr |-> SSD1306_I2C_ADDR_ALT,     scl_pin |-> 0, sda_pin |-> 21] }

\* everything but the framebuffer
BootedBus(cfg) ==
    /\ gpio_out = {cfg.scl_pin, cfg.sda_pin}
    /\ gpio_enable = {cfg.scl_pin, cfg.sda_pin}
    /\ iomux = [p \in 0..GPIO_MAX |->
                  IF p \in {cfg.scl_pin, cfg.sda_pin} THEN MuxOpenDrain ELSE MuxReset]
    /\ scl_gpio = cfg.scl_pin
    /\ sda_gpio = cfg.sda_pin
    /\ i2c_delay_cycles = (CPU_HZ \div SSD1306_FREQ_HZ) \div 4
    /\ ssd1306_i2c_addr = cfg.i2c_addr

Booted(cfg) ==
    /\ BootedBus(cfg)
    /\ ssd1306_buffer = ClearedBuffer

\* nothing is running and the monitor has captured nothing
Quiet ==
    /\ stack = << >>
    /\ ret = TRUE
    /\ op = [fn |-> "none"]
    /\ wire = << >>
    /\ bits = << >>
    /\ samples = << >>
    /\ ntrans = 0
    /\ delays = 0
    /\ cmds = << >>

---------------------------------------------------------------------------
(* Spec: a client of the bus driver makes write transactions.  The monitor's *)
(* capture restarts with every outermost call.                              *)

Addrs     == {SSD1306_I2C_ADDR_DEFAULT, SSD1306_I2C_ADDR_ALT, 255}
TestBytes == {75, 180}
Payloads  == UNION { [1..n -> TestBytes] : n \in 0..MaxLen }

OpReset(o) ==
    /\ op' = o
    /\ ntrans' = 0
    /\ delays' = 0
    /\ cmds' = << >>
    /\ wire' = << >>
    /\ bits' = << >>
    /\ samples' = << >>
    /\ UNCHANGED << gpio_out, ret, hw, disp >>

ClientWrite ==
    /\ stack = << >>
    /\ \E a \in Addrs, d \in Payloads :
          /\ stack' = << F_i2c_write(a, PtrArr(d), Len(d)) >>
          /\ OpReset([fn |-> "i2c_write", addr |-> a, data |-> d])
    /\ UNCHANGED app

ClientWriteReg ==
    /\ stack = << >>
    /\ \E a \in Addrs, r \in TestBytes, d \in Payloads :
          /\ stack' = << F_i2c_write_reg(a, r, PtrArr(d), Len(d)) >>
          /\ OpReset([fn |-> "i2c_write_reg", addr |-> a, reg |-> r, data |-> d])
    /\ UNCHANGED app

ClientSendData ==
    /\ stack = << >>
    /\ \E d \in Payloads :
          /\ stack' = << F_send_data(PtrArr(d), Len(d)) >>
          /\ OpReset([fn |-> "ssd1306_send_data", data |-> d])
    /\ UNCHANGED app

\* every 7-bit address, probed with a write of no data: i2c_write(a, data, 0)
AllAddrs == 0..127

ClientProbe ==
    /\ stack = << >>
    /\ \E a \in AllAddrs :
          /\ stack' = << F_i2c_write(a, PtrArr(<< >>), 0) >>
          /\ OpReset([fn |-> "i2c_write", addr |-> a, data |-> << >>])
    /\ UNCHANGED app

InitBus ==
    /\ \E cfg \in Configs : Booted(cfg)
    /\ Quiet
    /\ AppReset

Next ==
    \/ ClientWrite
    \/ ClientWriteReg
    \/ ClientSendData
    \/ ClientProbe
    \/ i2c_write
    \/ i2c_write_reg
    \/ ssd1306_send_data
    \/ i2c_start
    \/ i2c_stop
    \/ i2c_write_byte

Spec == InitBus /\ [][Next]_vars

---------------------------------------------------------------------------
(* SpecPrim: a client calls the bus primitives one by one: a start from the *)
(* idle bus, then bytes while it holds the bus (SCL low), then a stop.      *)

AllBytes == 0..255

\* a call by the client: the capture restarts, and the result of the call
\* before has been consumed
PrimCall(o) ==
    /\ op' = o
    /\ ret' = FALSE
    /\ ntrans' = 0
    /\ delays' = 0
    /\ cmds' = << >>
    /\ wire' = << >>
    /\ bits' = << >>
    /\ samples' = << >>
    /\ UNCHANGED << gpio_out, hw, disp >>

PrimStart ==
    /\ stack = << >>
    /\ SCL = 1 /\ SDA = 1
    /\ stack' = << F_start >>
    /\ PrimCall([fn |-> "i2c_start"])
    /\ UNCHANGED app

PrimWriteByte ==
    /\ stack = << >>
    /\ SCL = 0
    /\ \E b \in AllBytes :
          /\ stack' = << F_write_byte(b) >>
          /\ PrimCall([fn |-> "i2c_write_byte", data |-> b])
    /\ UNCHANGED app

PrimStop ==
    /\ stack = << >>
    /\ SCL = 0
    /\ stack' = << F_stop >>
    /\ PrimCall([fn |-> "i2c_stop"])
    /\ UNCHANGED app

PrimReadByte ==
    /\ stack = << >>
    /\ SCL = 0
    /\ \E a \in BOOLEAN :
          /\ stack' = << F_read_byte(a) >>
          /\ PrimCall([fn |-> "i2c_read_byte", ack |-> a, result |-> 0])
    /\ UNCHANGED app

NextPrim ==
    \/ PrimStart
    \/ PrimWriteByte
    \/ PrimReadByte
    \/ PrimStop
    \/ i2c_start
    \/ i2c_stop
    \/ i2c_write_byte
    \/ i2c_read_byte

SpecPrim == InitBus /\ [][NextPrim]_vars

\* A call of i2c_write_byte made pin operation by pin operation leaves what
\* the same call made in one step leaves (SDA was low or high at the call).
WholeCallAgrees ==
    (stack = << >> /\ op.fn = "i2c_write_byte") =>
        \E e \in { gpio_out, gpio_out \ {sda_gpio} } :
            LET m0 == [out |-> e, wire |-> << >>, bits |-> << >>,
                       samples |-> << >>, ntrans |-> 0,
                       delays |-> 0]
                m1 == RunOps(m0, WriteByteOps(op.data))
                m2 == PinOp([m1 EXCEPT !.samples = samples], SCL_LOW)
            IN  /\ m2 = Mon
                /\ ret = AckOf(samples[1])

---------------------------------------------------------------------------
(* ssd1306.h: drawing into the framebuffer *)

\* mutant: the bottom edge is not tested
InBounds_NoBottom(x, y) == ~(x < 0 \/ x >= SSD1306_WIDTH \/ y < 0)

\* if (x < 0 || x >= SSD1306_WIDTH || y < 0 || y >= SSD1306_HEIGHT) return;
InBounds(x, y) == ~(x < 0 \/ x >= SSD1306_WIDTH \/ y < 0 \/ y >= SSD1306_HEIGHT)


\* mutant: the page stride is the display height
PixelIndex_HeightStride(x, y) == x + (y \div 8) * SSD1306_HEIGHT

\* x + (y / 8) * SSD1306_WIDTH
PixelIndex(x, y) == x + (y \div 8) * SSD1306_WIDTH

\* void ssd1306_set_pixel(int x, int y, uint8_t color): the buffer it leaves
SetPixel(buf, x, y, color) ==
    IF ~InBounds(x, y) THEN buf
    ELSE IF color # 0
         THEN [buf EXCEPT ![PixelIndex(x, y)] = OrBit(@, y % 8)]
         ELSE [buf EXCEPT ![PixelIndex(x, y)] = ClrBit(@, y % 8)]

---------------------------------------------------------------------------
(* SpecFb: one drawing call on a framebuffer that earlier drawing left.     *)

Margin == 2         \* how far outside the display the coordinates range

Coords(n) == (0 - Margin)..(n - 1 + Margin)
Colors    == {0, 1, 255}

\* framebuffers earlier drawing can have left: blank, and a mixed pattern
TestBuffers == { [k \in 0..(BUFFER_SIZE - 1) |-> 0],
                 [k \in 0..(BUFFER_SIZE - 1) |-> (k * 37 + 11) % 256] }

InitFb ==
    /\ \E cfg \in Configs : BootedBus(cfg)
    /\ ssd1306_buffer \in TestBuffers
    /\ Quiet
    /\ AppReset

\* a drawing call touches nothing but the framebuffer
DrawFrame == UNCHANGED << gpio_out, hw, ssd1306_i2c_addr, stack, ret,
                          wire, bits, samples, ntrans, delays, cmds >>

ssd1306_set_pixel ==
    /\ op.fn = "none"
    /\ \E x \in Coords(SSD1306_WIDTH), y \in Coords(SSD1306_HEIGHT), c \in Colors :
          /\ ssd1306_buffer' = SetPixel(ssd1306_buffer, x, y, c)
          /\ op' = [fn |-> "ssd1306_set_pixel", x |-> x, y |-> y, color |-> c]
    /\ DrawFrame
    /\ UNCHANGED app

NextFb ==
    \/ ssd1306_set_pixel

SpecFb == InitFb /\ [][NextFb]_vars

---------------------------------------------------------------------------
(* ssd1306.h: text *)

\* font5x7.h: the glyph table, 95 glyphs of five column bytes, bits 0..6 the
\* rows top to bottom.  The table is taken as opaque data: the space glyph is
\* blank and every other glyph is some non-blank pattern.
font5x7(k) ==
    IF k = 0 THEN [i \in 1..5 |-> 0]
    ELSE [i \in 1..5 |-> ((k * 7 + i * 13) % 127) + 1]

\* mutant: only the lower end of the printable range is tested
GlyphIndex_NoUpper(c) == (IF c < 32 THEN 32 ELSE c) - 32

\* if (c < 32 || c > 126) c = 32;  ... font5x7[c - 32]
GlyphIndex(c) == (IF c < 32 \/ c > 126 THEN 32 ELSE c) - 32

\* mutant: the rows of the glyph are taken bottom up (1 << (6 - j))
RECURSIVE PlotGlyph_BottomUp(_, _, _, _, _)
PlotGlyph_BottomUp(buf, x, y, glyph, n) ==
    IF n >= 35 THEN buf
    ELSE LET i == n \div 7
             j == n % 7
         IN  CHOOSE r \in { PlotGlyph_BottomUp(b, x, y, glyph, n + 1) :
                            b \in { IF Bit(glyph[i + 1], 6 - j) = 1
                                    THEN SetPixel(buf, x + i, y + j, 1)
                                    ELSE buf } } : TRUE

\* the two loops of ssd1306_draw_char from pixel n on (n = 7 * i + j):
\*   if (line & (1 << j)) ssd1306_set_pixel(x + i, y + j, 1);
RECURSIVE PlotGlyph(_, _, _, _, _)
PlotGlyph(buf, x, y, glyph, n) ==
    IF n >= 35 THEN buf
    ELSE LET i == n \div 7
             j == n % 7
         IN  CHOOSE r \in { PlotGlyph(b, x, y, glyph, n + 1) :
                            b \in { IF Bit(glyph[i + 1], j) = 1
                                    THEN SetPixel(buf, x + i, y + j, 1)
                                    ELSE buf } } : TRUE

\* void ssd1306_draw_char(int x, int y, char c): the buffer it leaves
DrawChar(buf, x, y, c) == PlotGlyph(buf, x, y, font5x7(GlyphIndex(c)), 0)

NewLine == 10       \* '\n'

F_draw_string(x, y, s) ==
    [fn |-> "ssd1306_draw_string", pc |-> 1, x |-> x, y |-> y, cursor_x |-> x, str |-> s]

\* mutant: the cursor advances by the glyph width only
Advance_GlyphOnly(cursor_x) == cursor_x + 5

\* cursor_x += 6;
Advance(cursor_x) == cursor_x + 6

\* mutant: the wrap waits until the cursor is past the width
Wraps_Past(cursor_x) == cursor_x > SSD1306_WIDTH

\* if (cursor_x >= SSD1306_WIDTH)
Wraps(cursor_x) == cursor_x >= SSD1306_WIDTH

\* void ssd1306_draw_string(int x, int y, const char *str): one turn of the
\* loop per step; pc is the position of str in the string
ssd1306_draw_string ==
    /\ stack # << >> /\ Top.fn = "ssd1306_draw_string"
    /\ NoPins
    /\ UNCHANGED << hw, ssd1306_i2c_addr, ret, cmds >>
    /\ IF Top.pc > Len(Top.str)
       THEN /\ stack' = Tail(stack)
            /\ UNCHANGED << ssd1306_buffer, op >>
       ELSE LET c == Top.str[Top.pc]
            IN  IF c = NewLine
                THEN /\ stack' = << [Top EXCEPT !.cursor_x = Top.x,
                                                !.y = Top.y + 8,
                                                !.pc = Top.pc + 1] >> \o Tail(stack)
                     /\ UNCHANGED << ssd1306_buffer, op >>
                ELSE /\ ssd1306_buffer' = DrawChar(ssd1306_buffer, Top.cursor_x, Top.y, c)
                     /\ op' = [op EXCEPT !.chars =
                                  Append(@, << Top.cursor_x, Top.y, c, Top.pc >>)]
                     /\ IF Wraps(Advance(Top.cursor_x))
                        THEN stack' = << [Top EXCEPT !.cursor_x = Top.x,
                                                     !.y = Top.y + 8,
                                                     !.pc = Top.pc + 1] >> \o Tail(stack)
                        ELSE stack' = << [Top EXCEPT !.cursor_x = Advance(Top.cursor_x),
                                                     !.pc = Top.pc + 1] >> \o Tail(stack)
    /\ UNCHANGED app

---------------------------------------------------------------------------
(* ssd1306.h: filled rectangle *)

\* mutant: the inner loop runs one row too far (j <= y + h)
RECURSIVE FillColumn_Inclusive(_, _, _, _, _)
FillColumn_Inclusive(buf, i, j, jEnd, color) ==
    IF ~(j <= jEnd) THEN buf
    ELSE CHOOSE r \in { FillColumn_Inclusive(b, i, j + 1, jEnd, color) :
                        b \in { SetPixel(buf, i, j, color) } } : TRUE

\* for (int j = y; j < y + h; j++) ssd1306_set_pixel(i, j, color);
\* from row j on, jEnd = y + h
RECURSIVE FillColumn(_, _, _, _, _)
FillColumn(buf, i, j, jEnd, color) ==
    IF ~(j < jEnd) THEN buf
    ELSE CHOOSE r \in { FillColumn(b, i, j + 1, jEnd, color) :
                        b \in { SetPixel(buf, i, j, color) } } : TRUE

F_fill_rect(x, y, w, h, c) ==
    [fn |-> "ssd1306_fill_rect", i |-> x, x |-> x, y |-> y, w |-> w, h |-> h,
     color |-> c]

\* void ssd1306_fill_rect(int x, int y, int w, int h, uint8_t color): one
\* turn of the outer loop per step
ssd1306_fill_rect ==
    /\ stack # << >> /\ Top.fn = "ssd1306_fill_rect"
    /\ NoPins
    /\ UNCHANGED << hw, ssd1306_i2c_addr, ret, op, cmds >>
    /\ IF Top.i < Top.x + Top.w
       THEN /\ ssd1306_buffer' = FillColumn(ssd1306_buffer, Top.i, Top.y,
                                            Top.y + Top.h, Top.color)
            /\ stack' = << [Top EXCEPT !.i = Top.i + 1] >> \o Tail(stack)
       ELSE /\ stack' = Tail(stack)
            /\ UNCHANGED ssd1306_buffer
    /\ UNCHANGED app

---------------------------------------------------------------------------
(* SpecText: one ssd1306_draw_string call, or one ssd1306_fill_rect call    *)
(* and a pixel written after it, on a framebuffer that earlier              *)
(* drawing left.  op.chars lists the ssd1306_draw_char calls made: column,  *)
(* row, character and its position in the string; op.before is the         *)
(* framebuffer at the call.                                                 *)

MaxStr == 3         \* longest of the short strings drawn

TextChars == {65, 106, NewLine}
TextXs    == {0, 116, 125}
TextYs    == {0, 52, 64}

RECURSIVE StrsUpTo(_)
StrsUpTo(n) ==
    IF n = 0 THEN { << >> }
    ELSE LET shorter == StrsUpTo(n - 1)
         IN  shorter \cup { Append(t, c) : t \in shorter, c \in TextChars }

\* a line longer than a row at x = 0: 22 characters, a line break, one more
LongLine == [k \in 1..24 |-> IF k = 23 THEN NewLine ELSE 65]

\* a line that fills a row at x = 0: 21 printable characters, a space among them
FullRow == [k \in 1..21 |-> 32 + ((k * 17 + 78) % 95)]

AppDrawString ==
    /\ stack = << >>
    /\ op.fn = "none"
    /\ \E x \in TextXs, y \in TextYs, s \in StrsUpTo(MaxStr) \cup {LongLine, FullRow} :
          /\ stack' = << F_draw_string(x, y, s) >>
          /\ op' = [fn |-> "ssd1306_draw_string", x |-> x, y |-> y, str |-> s,
                    chars |-> << >>, before |-> ssd1306_buffer]
    /\ NoPins
    /\ UNCHANGED << hw, disp, ret, cmds >>
    /\ UNCHANGED app

\* every value a char can hold, whether the compiler makes char signed or
\* unsigned
CharCodes == (0 - 128)..255

CharPlaces == { << 0, 0 >>, << 125, 60 >> }

\* one ssd1306_draw_char call, made in one step; op.index is the index the
\* glyph table is read at
ssd1306_draw_char ==
    /\ stack = << >>
    /\ op.fn = "none"
    /\ \E at \in CharPlaces, c \in CharCodes :
          /\ ssd1306_buffer' = DrawChar(ssd1306_buffer, at[1], at[2], c)
          /\ op' = [fn |-> "ssd1306_draw_char", x |-> at[1], y |-> at[2], c |-> c,
                    index |-> GlyphIndex(c), before |-> ssd1306_buffer]
    /\ NoPins
    /\ UNCHANGED << hw, ssd1306_i2c_addr, stack, ret, cmds >>
    /\ UNCHANGED app

\* rectangles inside the display, across each edge and of no extent
RectXs == {0 - 3, 10, 120}
RectYs == {0 - 2, 10, 60}
RectWs == {0 - 1, 0, 20}
RectHs == {0 - 1, 3, 20}

AppFillRect ==
    /\ stack = << >>
    /\ op.fn = "none"
    /\ \E x \in RectXs, y \in RectYs, w \in RectWs, h \in RectHs, c \in Colors :
          /\ stack' = << F_fill_rect(x, y, w, h, c) >>
          /\ op' = [fn |-> "ssd1306_fill_rect", x |-> x, y |-> y, w |-> w, h |-> h,
                    color |-> c, before |-> ssd1306_buffer]
    /\ NoPins
    /\ UNCHANGED << hw, disp, ret, cmds >>
    /\ UNCHANGED app

\* the pixels written after a rectangle
PixelsAfter == { << 15, 15, 0 >>, << 40, 40, 1 >> }

\* ssd1306_set_pixel called once ssd1306_fill_rect has returned; op.prev is
\* the rectangle call
AppSetPixelAfter ==
    /\ stack = << >>
    /\ op.fn = "ssd1306_fill_rect"
    /\ \E px \in PixelsAfter :
          /\ ssd1306_buffer' = SetPixel(ssd1306_buffer, px[1], px[2], px[3])
          /\ op' = [fn |-> "ssd1306_set_pixel", x |-> px[1], y |-> px[2],
                    color |-> px[3], prev |-> op]
    /\ NoPins
    /\ UNCHANGED << hw, ssd1306_i2c_addr, stack, ret, cmds >>
    /\ UNCHANGED app

NextText ==
    \/ AppDrawString
    \/ ssd1306_draw_string
    \/ AppFillRect
    \/ ssd1306_fill_rect
    \/ AppSetPixelAfter
    \/ ssd1306_draw_char

SpecText == InitFb /\ [][NextText]_vars

---------------------------------------------------------------------------
(* SpecDisp: the firmware from power-on: app_main calls ssd1306_init, then  *)
(* the display calls are made in any order.                                 *)

\* statics zeroed, output registers in their reset state
PowerOn ==
    /\ gpio_out = {}
    /\ gpio_enable = {}
    /\ iomux = [p \in 0..GPIO_MAX |-> MuxReset]
    /\ scl_gpio = 0
    /\ sda_gpio = 0
    /\ i2c_delay_cycles = 0
    /\ ssd1306_buffer = ClearedBuffer
    /\ ssd1306_i2c_addr = 0

\* main.c: ssd1306_config_t oled_config
OledConfig == [i2c_addr |-> SSD1306_I2C_ADDR_DEFAULT, scl_pin |-> 7, sda_pin |-> 6]

InitDisp ==
    /\ PowerOn
    /\ Quiet
    /\ AppReset

\* app_main: ssd1306_init(&oled_config)
AppInit ==
    /\ stack = << >>
    /\ op.fn = "none"
    /\ stack' = << F_ssd1306_init(OledConfig) >>
    /\ OpReset([fn |-> "ssd1306_init"])
    /\ UNCHANGED app

Ready == stack = << >> /\ op.fn # "none"

ContrastLevels == {0, 207, 255}

AppDisplay ==
    /\ Ready
    /\ stack' = << F_display >>
    /\ OpReset([fn |-> "ssd1306_display"])
    /\ UNCHANGED app

AppSetContrast ==
    /\ Ready
    /\ \E c \in ContrastLevels :
          /\ stack' = << F_set_contrast(c) >>
          /\ OpReset([fn |-> "ssd1306_set_contrast", contrast |-> c])
    /\ UNCHANGED app

AppDisplayOn ==
    /\ Ready
    /\ \E b \in BOOLEAN :
          /\ stack' = << F_display_on(b) >>
          /\ OpReset([fn |-> "ssd1306_display_on", on |-> b])
    /\ UNCHANGED app

AppInvertDisplay ==
    /\ Ready
    /\ \E b \in BOOLEAN :
          /\ stack' = << F_invert_display(b) >>
          /\ OpReset([fn |-> "ssd1306_invert_display", invert |-> b])
    /\ UNCHANGED app

\* the pixel the application lights before a refresh
AppPixels == { << 5, 9 >> }

AppSetPixel ==
    /\ Ready
    /\ \E px \in AppPixels :
          /\ ssd1306_buffer' = SetPixel(ssd1306_buffer, px[1], px[2], 1)
          /\ op' = [fn |-> "ssd1306_set_pixel", x |-> px[1], y |-> px[2], color |-> 1]
    /\ ntrans' = 0
    /\ delays' = 0
    /\ cmds' = << >>
    /\ wire' = << >>
    /\ bits' = << >>
    /\ samples' = << >>
    /\ UNCHANGED << gpio_out, hw, ssd1306_i2c_addr, stack, ret >>
    /\ UNCHANGED app

\* one ssd1306_clear call, made in one step: the memset and nothing else.  The
\* monitor's capture restarts with the call and stays empty.
ssd1306_clear ==
    /\ Ready
    /\ ssd1306_buffer' = ClearedBuffer
    /\ op' = [fn |-> "ssd1306_clear", before |-> ssd1306_buffer]
    /\ ntrans' = 0
    /\ delays' = 0
    /\ cmds' = << >>
    /\ wire' = << >>
    /\ bits' = << >>
    /\ samples' = << >>
    /\ UNCHANGED << gpio_out, hw, ssd1306_i2c_addr, stack, ret >>
    /\ UNCHANGED app

NextDisp ==
    \/ AppInit
    \/ ssd1306_clear
    \/ AppDisplay
    \/ AppSetContrast
    \/ AppDisplayOn
    \/ AppInvertDisplay
    \/ AppSetPixel
    \/ ssd1306_init
    \/ i2c_init
    \/ ssd1306_display
    \/ ssd1306_set_contrast
    \/ ssd1306_display_on
    \/ ssd1306_invert_display
    \/ ssd1306_send_command
    \/ ssd1306_send_data
    \/ i2c_write
    \/ i2c_start_call
    \/ i2c_stop_call
    \/ i2c_write_byte_call

SpecDisp == InitDisp /\ [][NextDisp]_vars

---------------------------------------------------------------------------
(* SpecTerm: the firmware from power-on, every call made pin operation by   *)
(* pin operation and the processor never stopping inside a call.  After     *)
(* ssd1306_init the bus primitives, the write transactions and the refresh  *)
(* are called in any order.  The bring-up and the refresh run against a     *)
(* device that is absent or holds the line low; the bus calls run against   *)
(* an arbitrary device.                                                     *)

Devices == {"absent", "low"}

TermInit ==
    /\ stack = << >>
    /\ op.fn = "none"
    /\ \E d \in Devices :
          /\ stack' = << F_ssd1306_init(OledConfig) >>
          /\ OpReset([fn |-> "ssd1306_init", device |-> d])
    /\ UNCHANGED app

TermDisplay ==
    /\ Ready
    /\ SCL = 1 /\ SDA = 1
    /\ \E d \in Devices :
          /\ stack' = << F_display >>
          /\ OpReset([fn |-> "ssd1306_display", device |-> d])
    /\ UNCHANGED app

TermWriteByte ==
    /\ Ready
    /\ SCL = 0
    /\ \E b \in TestBytes :
          /\ stack' = << F_write_byte(b) >>
          /\ PrimCall([fn |-> "i2c_write_byte", data |-> b])
    /\ UNCHANGED app

\* the steps of the program
Run ==
    \/ ssd1306_init
    \/ i2c_init
    \/ ssd1306_display
    \/ ssd1306_send_command
    \/ ssd1306_send_data
    \/ i2c_write
    \/ i2c_write_reg
    \/ i2c_start
    \/ i2c_stop
    \/ i2c_write_byte
    \/ i2c_read_byte

NextTerm ==
    \/ TermInit
    \/ TermDisplay
    \/ (Ready /\ ClientWrite)
    \/ (Ready /\ ClientWriteReg)
    \/ (Ready /\ PrimStart)
    \/ TermWriteByte
    \/ (Ready /\ PrimReadByte)
    \/ (Ready /\ PrimStop)
    \/ Run

SpecTerm == InitDisp /\ [][NextTerm]_vars /\ WF_vars(Run)

---------------------------------------------------------------------------
(* SpecPins: the output register shared by the bus driver and another user  *)
(* of the GPIO functions.  The bus driver's pin operations (one register    *)
(* write each) come in between the register accesses of a gpio_set_high or  *)
(* gpio_set_low call on another pin, in every order.  op.last is the level  *)
(* each pin was last set to, op.pin the pin of the latest operation.        *)

\* what a register access leaves in GPIO_OUT_REG (out) and in the register
\* the processor read into (val): a write to W1TS sets and a write to W1TC
\* clears the bits of the mask, and no other bit
RegAccess(out, val, a) ==
    CASE a[1] = "write" /\ a[2] = "GPIO_OUT_W1TS_REG" -> [out |-> out \cup a[3], val |-> val]
      [] a[1] = "write" /\ a[2] = "GPIO_OUT_W1TC_REG" -> [out |-> out \ a[3], val |-> val]
      [] a[1] = "read"  /\ a[2] = "GPIO_OUT_REG"      -> [out |-> out, val |-> out]
      [] a[1] = "write_set" /\ a[2] = "GPIO_OUT_REG"  -> [out |-> val \cup a[3], val |-> val]
      [] a[1] = "write_clr" /\ a[2] = "GPIO_OUT_REG"  -> [out |-> val \ a[3], val |-> val]

\* mutant: REG_SET_BIT(GPIO_OUT_REG, 1 << gpio_num)
SetHighAccesses_ReadModifyWrite(n) ==
    IF n < 0 \/ n > 21 THEN << >>
    ELSE << << "read", "GPIO_OUT_REG", {} >>, << "write_set", "GPIO_OUT_REG", {n} >> >>

\* void gpio_set_high(int gpio_num): its register accesses
SetHighAccesses(n) ==
    IF n < 0 \/ n > 21 THEN << >>
    ELSE << << "write", "GPIO_OUT_W1TS_REG", {n} >> >>

\* void gpio_set_low(int gpio_num): its register accesses
SetLowAccesses(n) ==
    IF n < 0 \/ n > 21 THEN << >>
    ELSE << << "write", "GPIO_OUT_W1TC_REG", {n} >> >>

F_gpio_set_high(n) == [fn |-> "gpio_set_high", gpio_num |-> n, level |-> 1,
                       todo |-> SetHighAccesses(n), val |-> {}]
F_gpio_set_low(n)  == [fn |-> "gpio_set_low", gpio_num |-> n, level |-> 0,
                       todo |-> SetLowAccesses(n), val |-> {}]

\* the pins of the other user, and indices that are no pin
UserPins == {2, 8, 0 - 1, 22}

InitPinLevels ==
    /\ \E cfg \in Configs : Booted(cfg)
    /\ stack = << >>
    /\ ret = TRUE
    /\ op = [fn |-> "pins", pin |-> scl_gpio,
             last |-> [q \in 0..GPIO_MAX |-> Level(gpio_out, q)]]
    /\ wire = << >>
    /\ bits = << >>
    /\ samples = << >>
    /\ ntrans = 0
    /\ delays = 0
    /\ cmds = << >>
    /\ AppReset

UserSetHigh ==
    /\ stack = << >>
    /\ \E n \in UserPins : stack' = << F_gpio_set_high(n) >>
    /\ NoPins
    /\ UNCHANGED << hw, disp, ret, op, cmds >>
    /\ UNCHANGED app

UserSetLow ==
    /\ stack = << >>
    /\ \E n \in UserPins : stack' = << F_gpio_set_low(n) >>
    /\ NoPins
    /\ UNCHANGED << hw, disp, ret, op, cmds >>
    /\ UNCHANGED app

\* gpio_set_high / gpio_set_low: the next register access, or the return
gpio_set_level ==
    /\ stack # << >> /\ Top.fn \in {"gpio_set_high", "gpio_set_low"}
    /\ UNCHANGED << hw, disp, ret, cmds, wire, bits, samples, ntrans, delays >>
    /\ IF Top.todo = << >>
       THEN /\ stack' = Tail(stack)
            /\ UNCHANGED << gpio_out, op >>
       ELSE LET r == RegAccess(gpio_out, Top.val, Head(Top.todo))
            IN  /\ gpio_out' = r.out
                /\ stack' = << [Top EXCEPT !.todo = Tail(@), !.val = r.val] >>
                /\ op' = IF Head(Top.todo)[1] = "read" THEN op
                         ELSE [op EXCEPT !.pin = Top.gpio_num,
                                         !.last[Top.gpio_num] = Top.level]
    /\ UNCHANGED app

\* scl_high / scl_low / sda_high / sda_low of the bus driver, at any moment
BusPinOp ==
    /\ \E o \in {SCL_HIGH, SCL_LOW, SDA_HIGH, SDA_LOW} :
          LET pin == IF o[1] = "scl" THEN scl_gpio ELSE sda_gpio
          IN  /\ gpio_out' = PinOp(Mon, o).out
              /\ op' = [op EXCEPT !.pin = pin, !.last[pin] = o[2]]
    /\ UNCHANGED << hw, disp, stack, ret, cmds, wire, bits, samples, ntrans, delays >>
    /\ UNCHANGED app

NextPins ==
    \/ UserSetHigh
    \/ UserSetLow
    \/ gpio_set_level
    \/ BusPinOp

SpecPins == InitPinLevels /\ [][NextPins]_vars

---------------------------------------------------------------------------
(* SpecInit: from power-on a client of the bus driver calls i2c_init with   *)
(* any pin pair and any frequency, then the bus primitives in any order     *)
(* the bus state allows, each made pin operation by pin operation.          *)

\* pin pairs (scl_pin, sda_pin): the two of Configs, one pin given twice, and
\* indices past the last pin
InitPins == { << 7, 6 >>, << 0, 21 >>, << 6, 6 >>, << 22, 6 >>, << 6, 25 >> }

\* uint32_t freq_hz: the two standard rates, rates that do not divide the
\* processor clock, the lowest and one above the processor clock.  Zero is
\* left out: the division is undefined for it.
InitFreqs == { 100000, 400000, 300000, 1000000, 7, 1, 160000001 }

ClientInit ==
    /\ stack = << >>
    /\ op.fn = "none"
    /\ \E pins \in InitPins, f \in InitFreqs :
          LET cfg == [scl_pin |-> pins[1], sda_pin |-> pins[2], freq_hz |-> f]
          IN  /\ stack' = << F_i2c_init(cfg) >>
              /\ OpReset([fn |-> "i2c_init", config |-> cfg])
    /\ UNCHANGED app

\* int gpio_num: every pin, the indices next to the range, and far ones
PinIndexes == (0 - 2)..23 \cup {0 - 2147483647, 31, 32, 2147483647}

\* a call has returned, or none was made
Configurable == stack = << >> /\ op.fn \in {"none", "i2c_init"}

\* one gpio_set_opendrain call, made in one step
gpio_set_opendrain ==
    /\ Configurable
    /\ \E n \in PinIndexes :
          /\ iomux' = OpenDrainMux(iomux, n)
          /\ gpio_enable' = OpenDrainEnable(gpio_enable, n)
          /\ op' = [fn |-> "gpio_set_opendrain", n |-> n,
                    accesses |-> OpenDrainAccesses(n),
                    before |-> [iomux |-> iomux, gpio_enable |-> gpio_enable]]
    /\ NoPins
    /\ UNCHANGED << scl_gpio, sda_gpio, i2c_delay_cycles, disp, stack, ret, cmds >>
    /\ UNCHANGED app

\* one gpio_set_output call, made in one step
gpio_set_output ==
    /\ Configurable
    /\ \E n \in PinIndexes :
          /\ iomux' = OutputMux(iomux, n)
          /\ gpio_enable' = OutputEnable(gpio_enable, n)
          /\ op' = [fn |-> "gpio_set_output", n |-> n,
                    accesses |-> OutputAccesses(n),
                    before |-> [iomux |-> iomux, gpio_enable |-> gpio_enable]]
    /\ NoPins
    /\ UNCHANGED << scl_gpio, sda_gpio, i2c_delay_cycles, disp, stack, ret, cmds >>
    /\ UNCHANGED app

\* a call has returned and the bus driver is initialised
BusReady == stack = << >> /\ op.fn \in {"i2c_init", "i2c_start", "i2c_write_byte", "i2c_stop"}

NextInit ==
    \/ ClientInit
    \/ i2c_init
    \/ gpio_set_opendrain
    \/ gpio_set_output
    \/ (BusReady /\ PrimStart)
    \/ (BusReady /\ TermWriteByte)
    \/ (BusReady /\ PrimStop)
    \/ i2c_start
    \/ i2c_write_byte
    \/ i2c_stop

SpecInit == InitDisp /\ [][NextInit]_vars

---------------------------------------------------------------------------
(* console.c: buffered output to the USB Serial/JTAG transmit FIFO.  fifo   *)
(* is the sequence of register writes: << "EP1", byte >> for a byte put in  *)
(* the FIFO, << "WR_DONE" >> for the write that starts the transmission.    *)

CONSOLE_BUFFER_SIZE == 64

CR == 13            \* '\r'

\* the console's statics and the writes made so far
Con == [buffer |-> buffer, buffer_pos |-> buffer_pos, fifo |-> fifo]

SetCon(c) ==
    /\ buffer' = c.buffer
    /\ buffer_pos' = c.buffer_pos
    /\ fifo' = c.fifo

\* static void flush_buffer(void)
flush_buffer(c) ==
    IF c.buffer_pos = 0
    THEN c
    ELSE [c EXCEPT !.fifo = c.fifo \o [i \in 1..c.buffer_pos |-> << "EP1", c.buffer[i - 1] >>]
                                   \o << << "WR_DONE" >> >>,
                   !.buffer_pos = 0]

\* mutant: the flush comes one character late
ConsolePutc_FlushLate(c, ch) ==
    LET stored == [c EXCEPT !.buffer[c.buffer_pos] = ch, !.buffer_pos = c.buffer_pos + 1]
    IN  IF stored.buffer_pos > CONSOLE_BUFFER_SIZE THEN flush_buffer(stored) ELSE stored

\* void console_putc(char c)
ConsolePutc(c, ch) ==
    LET stored == [c EXCEPT !.buffer[c.buffer_pos] = ch, !.buffer_pos = c.buffer_pos + 1]
    IN  IF stored.buffer_pos >= CONSOLE_BUFFER_SIZE THEN flush_buffer(stored) ELSE stored

\* mutant: the carriage return follows the line feed
PutsTurn_CrAfter(ch) == IF ch = NewLine THEN << ch, CR >> ELSE << ch >>

\* console_puts, one turn of its loop: the characters it passes to
\* console_putc for the character ch of its argument
PutsTurn(ch) == IF ch = NewLine THEN << CR, ch >> ELSE << ch >>

\* console_puts: the console after one turn of its loop
PutsChar(c, ch) ==
    LET t == PutsTurn(ch)
    IN  IF Len(t) = 2 THEN ConsolePutc(ConsolePutc(c, t[1]), t[2]) ELSE ConsolePutc(c, t[1])

\* void console_puts(const char *str), the whole call: str is the string
\* without its terminator
RECURSIVE PutsFrom(_, _, _)
PutsFrom(c, str, i) ==
    IF i > Len(str)
    THEN flush_buffer(c)
    ELSE CHOOSE r \in { PutsFrom(n, str, i + 1) : n \in { PutsChar(c, str[i]) } } : TRUE

ConsolePuts(c, str) == PutsFrom(c, str, 1)

\* the characters console_puts passes to console_putc for str
RECURSIVE PutsPasses(_)
PutsPasses(str) ==
    IF str = << >> THEN << >>
    ELSE PutsTurn(Head(str)) \o PutsPasses(Tail(str))

---------------------------------------------------------------------------
(* SpecConsole: a client calls console_putc and console_puts in any order.  *)
(* console_puts runs console_putc call by console_putc call.  op.passed is  *)
(* every character passed to console_putc so far, op.start its length when  *)
(* the call began.                                                          *)

F_console_puts(s) == [fn |-> "console_puts", pc |-> "next", str |-> s, i |-> 1]

\* void console_puts(const char *str): a step is one console_putc call, or the
\* closing flush and the return
console_puts ==
    /\ stack # << >> /\ Top.fn = "console_puts"
    /\ NoPins
    /\ UNCHANGED << hw, disp, ret, cmds, shell >>
    /\ IF Top.i > Len(Top.str)
       THEN /\ SetCon(flush_buffer(Con))
            /\ stack' = Tail(stack)
            /\ UNCHANGED op
       ELSE LET t  == PutsTurn(Top.str[Top.i])
                k  == IF Top.pc = "next" THEN 1 ELSE 2
            IN  /\ SetCon(ConsolePutc(Con, t[k]))
                /\ op' = [op EXCEPT !.passed = Append(@, t[k])]
                /\ stack' = << IF k < Len(t)
                               THEN [Top EXCEPT !.pc = "char"]
                               ELSE [Top EXCEPT !.pc = "next", !.i = Top.i + 1] >>
                           \o Tail(stack)

MaxCalls == 2       \* console calls made after the buffer was filled

\* characters already in the buffer when the calls begin: the console after
\* that many console_putc calls
Prefill == {0, 1, 62, 63}

PrefillChar(k) == 97 + (k % 26)

\* 63 characters and a line feed; 70 different characters; two line feeds
Line63 == [k \in 1..64 |-> IF k = 64 THEN NewLine ELSE 66]
Long70 == [k \in 1..70 |-> 33 + k]
ConsoleStrs == { << >>, << 65, NewLine >>, << NewLine, NewLine >>, Line63, Long70 }

InitConsole ==
    /\ PowerOn
    /\ stack = << >>
    /\ ret = TRUE
    /\ wire = << >>
    /\ bits = << >>
    /\ samples = << >>
    /\ ntrans = 0
    /\ delays = 0
    /\ cmds = << >>
    /\ input_buffer = [k \in 0..63 |-> 0]
    /\ input_pos = 0
    /\ display_lines = [i \in 0..7 |-> [k \in 0..21 |-> 0]]
    /\ current_line = 0
    /\ fifo = << >>
    /\ \E n \in Prefill :
          /\ buffer = [k \in 0..63 |-> IF k < n THEN PrefillChar(k) ELSE 0]
          /\ buffer_pos = n
          /\ op = [fn |-> "none", str |-> << >>, calls |-> 0, start |-> n,
                   passed |-> [k \in 1..n |-> PrefillChar(k - 1)],
                   before |-> [buffer |-> [k \in 0..63 |-> IF k < n THEN PrefillChar(k) ELSE 0],
                               buffer_pos |-> n, fifo |-> << >>]]

\* one console_putc call, made in one step
console_putc ==
    /\ stack = << >>
    /\ op.calls < MaxCalls
    /\ \E ch \in {65, NewLine} :
          /\ SetCon(ConsolePutc(Con, ch))
          /\ op' = [fn |-> "console_putc", str |-> << ch >>, calls |-> op.calls + 1,
                    start |-> Len(op.passed), passed |-> Append(op.passed, ch),
                    before |-> Con]
    /\ NoPins
    /\ UNCHANGED << hw, disp, stack, ret, cmds, shell >>

ClientPuts ==
    /\ stack = << >>
    /\ op.calls < MaxCalls
    /\ \E s \in ConsoleStrs :
          /\ stack' = << F_console_puts(s) >>
          /\ op' = [fn |-> "console_puts", str |-> s, calls |-> op.calls + 1,
                    start |-> Len(op.passed), passed |-> op.passed, before |-> Con]
    /\ NoPins
    /\ UNCHANGED << hw, disp, ret, cmds, app >>

NextConsole ==
    \/ console_putc
    \/ ClientPuts
    \/ console_puts

SpecConsole == InitConsole /\ [][NextConsole]_vars

\* console_puts made call by call leaves what the whole call leaves
PutsWholeCallAgrees ==
    (stack = << >> /\ op.fn = "console_puts") =>
        /\ Con = ConsolePuts(op.before, op.str)
        /\ op.passed = SubSeq(op.passed, 1, op.start) \o PutsPasses(op.str)

---------------------------------------------------------------------------
(* shell.c: the line shell.  A C string is modelled by its characters, a    *)
(* sequence of codes without the terminator; an array holding a string is a *)
(* function from its indexes, and what follows the first NUL stays in it.   *)

SHELL_MAX_LINE_LENGTH == 64
SHELL_MAX_ARGS == 8
MAX_LINES == 8
LINE_SIZE == 22     \* display_lines[MAX_LINES][22]
SPACE == 32         \* ' '
BS == 8             \* '\b'
DEL == 127

\* the string an array holds: its elements up to the first NUL
RECURSIVE CStrFrom(_, _)
CStrFrom(a, i) == IF a[i] = 0 THEN << >> ELSE << a[i] >> \o CStrFrom(a, i + 1)

CStr(a) == CStrFrom(a, 0)

\* static void str_copy(char *dest, const char *src, int max_len), dest being
\* the array from index at on:
\*   while (src[i] && i < max_len - 1) { dest[i] = src[i]; i++; }  dest[i] = '\0';
str_copy(dest, at, src, max_len) ==
    LET n == IF Len(src) < max_len - 1 THEN Len(src) ELSE max_len - 1
    IN  [k \in DOMAIN dest |->
            IF k >= at /\ k < at + n THEN src[k - at + 1]
            ELSE IF k = at + n THEN 0
            ELSE dest[k]]

\* static int str_len(const char *s)
str_len(s) == Len(s)

\* mutant: the comparison stops at the end of the shorter string
RECURSIVE str_equals_Prefix(_, _)
str_equals_Prefix(s1, s2) ==
    IF s1 # << >> /\ s2 # << >>
    THEN (IF Head(s1) # Head(s2) THEN FALSE ELSE str_equals_Prefix(Tail(s1), Tail(s2)))
    ELSE TRUE

\* static bool str_equals(const char *s1, const char *s2)
RECURSIVE str_equals(_, _)
str_equals(s1, s2) ==
    IF s1 # << >> /\ s2 # << >>
    THEN (IF Head(s1) # Head(s2) THEN FALSE ELSE str_equals(Tail(s1), Tail(s2)))
    ELSE s1 = << >> /\ s2 = << >>

\* an array of n chars on the stack, as it is before anything is stored
Local(n) == [k \in 0..(n - 1) |-> 0]

\* void ssd1306_draw_string(int x, int y, const char *str), the whole call
\* from the k-th character on: the buffer it leaves
RECURSIVE DrawStringFrom(_, _, _, _, _, _)
DrawStringFrom(buf, x, y, cursor_x, str, k) ==
    IF k > Len(str) THEN buf
    ELSE IF str[k] = NewLine
         THEN DrawStringFrom(buf, x, y + 8, x, str, k + 1)
         ELSE CHOOSE r \in
                { IF Wraps(Advance(cursor_x))
                  THEN DrawStringFrom(b, x, y + 8, x, str, k + 1)
                  ELSE DrawStringFrom(b, x, y, Advance(cursor_x), str, k + 1) :
                  b \in { DrawChar(buf, cursor_x, y, str[k]) } } : TRUE

DrawString(buf, x, y, str) == DrawStringFrom(buf, x, y, x, str, 1)

\* void shell_refresh_display(void), the loop from line i on
RECURSIVE RefreshFrom(_, _, _)
RefreshFrom(buf, lines, i) ==
    IF i >= MAX_LINES THEN buf
    ELSE CHOOSE r \in
           { RefreshFrom(b, lines, i + 1) :
             b \in { IF lines[i][0] # 0
                     THEN DrawString(buf, 0, i * 8, CStr(lines[i]))
                     ELSE buf } } : TRUE

\* void shell_refresh_display(void): the framebuffer it leaves (and sends),
\* drawn call by call
RefreshedByCalls(lines) == RefreshFrom(ClearedBuffer, lines, 0)

\* void shell_refresh_display(void): the framebuffer it leaves, byte by byte.
\* Line i is drawn at x = 0, y = 8 i, so it lies in page i, its character c in
\* the columns 6 c .. 6 c + 4, and byte 128 i + 6 c + j is column j of the
\* glyph; a line has at most 21 characters and ends before column 126.
Refreshed(lines) ==
    LET text == [i \in 0..(MAX_LINES - 1) |-> CStr(lines[i])]
    IN  [k \in 0..(BUFFER_SIZE - 1) |->
            LET i == k \div SSD1306_WIDTH
                c == (k % SSD1306_WIDTH) \div 6
                j == (k % SSD1306_WIDTH) % 6
            IN  IF c < Len(text[i]) /\ j < 5
                THEN font5x7(GlyphIndex(text[i][c + 1]))[j + 1]
                ELSE 0]

\* shell_print, the scroll loop from line i on:
\*   str_copy(display_lines[i], display_lines[i + 1], 22);
RECURSIVE ScrollFrom(_, _)
ScrollFrom(lines, i) ==
    IF i >= MAX_LINES - 1 THEN lines
    ELSE ScrollFrom([lines EXCEPT ![i] = str_copy(lines[i], 0, CStr(lines[i + 1]), LINE_SIZE)],
                    i + 1)

\* mutant: the lines are kept and the last one is overwritten
StoreLine_NoScroll(lines, cur, text) ==
    LET at == IF cur >= MAX_LINES THEN MAX_LINES - 1 ELSE cur
    IN  [display_lines |-> [lines EXCEPT ![at] = str_copy(lines[at], 0, text, LINE_SIZE)],
         current_line  |-> at + 1]

\* shell_print: what it does to display_lines and current_line
StoreLine(lines, cur, text) ==
    LET scrolled == IF cur >= MAX_LINES THEN ScrollFrom(lines, 0) ELSE lines
        at       == IF cur >= MAX_LINES THEN MAX_LINES - 1 ELSE cur
    IN  [display_lines |-> [scrolled EXCEPT ![at] = str_copy(scrolled[at], 0, text, LINE_SIZE)],
         current_line  |-> at + 1]

\* mutant: the text goes to the display only
PrintConsole_Silent(c, text) == c

\* shell_print: console_puts(text); console_puts("\n");
PrintConsole(c, text) == ConsolePuts(ConsolePuts(c, text), << NewLine >>)

\* shell_clear: display_lines[i][0] = '\0' for every line
ClearedLines(lines) == [i \in DOMAIN lines |-> [lines[i] EXCEPT ![0] = 0]]

\* the string literals of shell.c
Str_help    == << 104, 101, 108, 112 >>     \* "help"
Str_clear   == << 99, 108, 101, 97, 114 >>     \* "clear"
Str_echo    == << 101, 99, 104, 111 >>     \* "echo"
Str_prompt  == << 62 >>     \* ">"
Str_prefix  == << 99, 111, 109, 109, 97, 110, 100, 32, 117, 110, 107, 110, 111, 119, 110, 58, 32 >>
                      \* "command unknown: "
Str_usage   == << 85, 115, 97, 103, 101, 58, 32, 101, 99, 104, 111, 32, 60, 116, 101, 120, 116, 62 >>
                      \* "Usage: echo <text>"
Str_banner  == << 82, 73, 83, 67, 45, 86, 32, 83, 104, 101, 108, 108, 32, 118, 49, 46, 48 >>
                      \* "RISC-V Shell v1.0"
Str_hint    == << 84, 121, 112, 101, 32, 39, 104, 101, 108, 112, 39 >>
                      \* "Type 'help'"
HelpLines ==
    << << 65, 118, 97, 105, 108, 97, 98, 108, 101, 32, 99, 111, 109, 109, 97, 110, 100, 115, 58 >>,
       \* "Available commands:"
       << 32, 32, 104, 101, 108, 112, 32, 32, 45, 32, 83, 104, 111, 119, 32, 104, 101, 108, 112 >>,
       \* "  help  - Show help"
       << 32, 32, 99, 108, 101, 97, 114, 32, 45, 32, 67, 108, 101, 97, 114, 32, 115, 99, 114, 101, 101, 110 >>,
       \* "  clear - Clear screen"
       << 32, 32, 101, 99, 104, 111, 32, 32, 45, 32, 69, 99, 104, 111, 32, 116, 101, 120, 116 >> >>
       \* "  echo  - Echo text"

\* static const command_t commands[]
commands ==
    << [name |-> Str_help,  handler |-> "cmd_help"],
       [name |-> Str_clear, handler |-> "cmd_clear"],
       [name |-> Str_echo,  handler |-> "cmd_echo"] >>

NUM_COMMANDS == Len(commands)

\* shell_execute: prompt_line, "> " and then the line as str_copy leaves it
PromptLine(cmdline) ==
    CStr(str_copy([Local(SHELL_MAX_LINE_LENGTH) EXCEPT ![0] = 62, ![1] = SPACE],
                  2, cmdline, SHELL_MAX_LINE_LENGTH - 2))

\* while (*p == ' ') p++;  the first index from p on that holds no space
RECURSIVE SkipSpaces(_, _)
SkipSpaces(s, p) ==
    IF p <= Len(s) /\ s[p] = SPACE THEN SkipSpaces(s, p + 1) ELSE p

\* while (*p && *p != ' ') p++;
RECURSIVE ArgEnd(_, _)
ArgEnd(s, p) ==
    IF p <= Len(s) /\ s[p] # SPACE THEN ArgEnd(s, p + 1) ELSE p

\* shell_execute, the argument loop over args_buffer from p on (indexes from 1,
\* Len(buf) + 1 is the terminator): the arguments found
RECURSIVE ParseArgs(_, _, _)
ParseArgs(buf, p, argv) ==
    IF p > Len(buf) \/ Len(argv) >= SHELL_MAX_ARGS THEN argv
    ELSE LET s == SkipSpaces(buf, p)
         IN  IF s > Len(buf) THEN argv
             ELSE LET e == ArgEnd(buf, s)
                  IN  ParseArgs(buf, IF e <= Len(buf) THEN e + 1 ELSE e,
                                Append(argv, SubSeq(buf, s, e - 1)))

\* shell_execute: the line without its leading spaces, copied to args_buffer
ArgsBuffer(cmdline) ==
    CStr(str_copy(Local(SHELL_MAX_LINE_LENGTH), 0,
                  SubSeq(cmdline, SkipSpaces(cmdline, 1), Len(cmdline)),
                  SHELL_MAX_LINE_LENGTH))

\* shell_execute, the search loop from entry i on (i from 0): the entry whose
\* handler runs (from 1), 0 when there is none
RECURSIVE FindCommand(_, _)
FindCommand(name, i) ==
    IF i >= NUM_COMMANDS THEN 0
    ELSE IF str_equals(name, commands[i + 1].name) THEN i + 1
    ELSE FindCommand(name, i + 1)

\* cmd_echo, the loop over the arguments from argv[i] on (argv[0] is argv[1]
\* here); msg is message[0 .. pos-1]
RECURSIVE EchoFrom(_, _, _)
EchoFrom(argv, i, msg) ==
    IF ~(i < Len(argv) /\ Len(msg) < SHELL_MAX_LINE_LENGTH - 1) THEN msg
    ELSE LET arg   == argv[i + 1]
             room  == SHELL_MAX_LINE_LENGTH - 2 - Len(msg)
             n     == IF room < 0 THEN 0
                      ELSE IF Len(arg) < room THEN Len(arg) ELSE room
             m1    == msg \o SubSeq(arg, 1, n)
             m2    == IF i < Len(argv) - 1 /\ Len(m1) < SHELL_MAX_LINE_LENGTH - 1
                      THEN Append(m1, SPACE)
                      ELSE m1
         IN  EchoFrom(argv, i + 1, m2)

EchoMessage(argv) == EchoFrom(argv, 1, << >>)

\* shell_execute: err_msg, the prefix and then the name
ErrMsg(name) ==
    CStr(str_copy(str_copy(Local(SHELL_MAX_LINE_LENGTH), 0, Str_prefix, SHELL_MAX_LINE_LENGTH),
                  str_len(Str_prefix), name,
                  SHELL_MAX_LINE_LENGTH - str_len(Str_prefix)))

---------------------------------------------------------------------------
(* shell.c: the functions, as frames.  op.passed is every character passed  *)
(* to console_putc so far, op.prints the texts printed since shell_init or  *)
(* shell_clear, op.log what happened since the last key arrived, op.keylog  *)
(* the keys that arrived, op.typed the line the last key found and          *)
(* op.before the state it found.                                            *)

F_shell_print(text)     == [fn |-> "shell_print", pc |-> 1, text |-> text]
F_shell_clear           == [fn |-> "shell_clear", pc |-> 1]
F_refresh               == [fn |-> "shell_refresh_display", pc |-> 0]
F_cmd(handler, argv)    == [fn |-> handler, pc |-> 1, argv |-> argv]
F_shell_execute(line)   == [fn |-> "shell_execute", pc |-> 1, cmdline |-> line, argv |-> << >>]
F_shell_process_char(c) == [fn |-> "shell_process_char", pc |-> 1, c |-> c]

\* what shell actions leave alone
ShellOnly ==
    /\ NoPins
    /\ UNCHANGED << hw, ssd1306_i2c_addr, ret, cmds >>

Logged(o, e) == [o EXCEPT !.log = Append(@, e)]

\* static void shell_print(const char *text), the whole call in one step; the
\* transfer of shell_refresh_display leaves the bus idle as it found it
shell_print_call ==
    /\ stack # << >> /\ Top.fn = "shell_print"
    /\ ShellOnly
    /\ LET st == StoreLine(display_lines, current_line, Top.text)
       IN  /\ SetCon(PrintConsole(Con, Top.text))
           /\ display_lines' = st.display_lines
           /\ current_line' = st.current_line
           /\ ssd1306_buffer' = Refreshed(st.display_lines)
    /\ op' = [Logged(op, << "print", Top.text >>) EXCEPT
                 !.passed = @ \o PutsPasses(Top.text) \o PutsPasses(<< NewLine >>),
                 !.prints = Append(@, Top.text)]
    /\ stack' = Tail(stack)
    /\ UNCHANGED << input_buffer, input_pos >>

\* static void shell_clear(void), the whole call in one step
shell_clear_call ==
    /\ stack # << >> /\ Top.fn = "shell_clear"
    /\ ShellOnly
    /\ display_lines' = ClearedLines(display_lines)
    /\ current_line' = 0
    /\ ssd1306_buffer' = Refreshed(ClearedLines(display_lines))
    /\ op' = [Logged(op, << "clear" >>) EXCEPT !.prints = << >>]
    /\ stack' = Tail(stack)
    /\ UNCHANGED << console, input_buffer, input_pos >>

\* static void cmd_help(int argc, char **argv)
cmd_help ==
    /\ stack # << >> /\ Top.fn = "cmd_help"
    /\ ShellOnly
    /\ IF Top.pc <= Len(HelpLines)
       THEN Call(F_shell_print(HelpLines[Top.pc]), Top.pc + 1)
       ELSE stack' = Tail(stack)
    /\ UNCHANGED << ssd1306_buffer, op, app >>

\* static void cmd_clear(int argc, char **argv)
cmd_clear ==
    /\ stack # << >> /\ Top.fn = "cmd_clear"
    /\ ShellOnly
    /\ IF Top.pc = 1
       THEN Call(F_shell_clear, 2)
       ELSE stack' = Tail(stack)
    /\ UNCHANGED << ssd1306_buffer, op, app >>

\* static void cmd_echo(int argc, char **argv)
cmd_echo ==
    /\ stack # << >> /\ Top.fn = "cmd_echo"
    /\ ShellOnly
    /\ IF Top.pc = 1
       THEN IF Len(Top.argv) < 2
            THEN Call(F_shell_print(Str_usage), 2)
            ELSE Call(F_shell_print(EchoMessage(Top.argv)), 2)
       ELSE stack' = Tail(stack)
    /\ UNCHANGED << ssd1306_buffer, op, app >>

\* void shell_execute(const char *cmdline)
\* pc 1: the echo of the line; pc 2: parse and dispatch; pc 3: the second
\* line of the long message; pc 4: return
shell_execute ==
    /\ stack # << >> /\ Top.fn = "shell_execute"
    /\ ShellOnly
    /\ UNCHANGED << ssd1306_buffer, app >>
    /\ \/ /\ Top.pc = 1
          /\ Call(F_shell_print(PromptLine(Top.cmdline)), 2)
          /\ op' = Logged(op, << "execute", Top.cmdline >>)
       \/ /\ Top.pc = 2
          /\ LET buf  == ArgsBuffer(Top.cmdline)
                 argv == ParseArgs(buf, 1, << >>)
                 i    == FindCommand(argv[1], 0)
             IN  IF buf = << >> \/ argv = << >>
                 THEN stack' = Tail(stack) /\ UNCHANGED op
                 ELSE IF i > 0
                 THEN /\ Call(F_cmd(commands[i].handler, argv), 4)
                      /\ op' = Logged(op, << "handler", commands[i].handler, argv >>)
                 ELSE /\ UNCHANGED op
                      /\ IF str_len(Str_prefix) + str_len(argv[1]) <= 21
                         THEN Call(F_shell_print(ErrMsg(argv[1])), 4)
                         ELSE stack' = << F_shell_print(Str_prefix),
                                          [Top EXCEPT !.pc = 3, !.argv = argv] >>
                                        \o Tail(stack)
       \/ /\ Top.pc = 3
          /\ Call(F_shell_print(Top.argv[1]), 4)
          /\ UNCHANGED op
       \/ /\ Top.pc = 4
          /\ stack' = Tail(stack)
          /\ UNCHANGED op

\* mutant: a full line takes one more character
LineHasRoom_Full(pos) == pos <= SHELL_MAX_LINE_LENGTH - 1

\* if (input_pos < SHELL_MAX_LINE_LENGTH - 1)
LineHasRoom(pos) == pos < SHELL_MAX_LINE_LENGTH - 1

\* mutant: an empty line is executed too
LineGiven_Always(pos) == TRUE

\* if (input_pos > 0) shell_execute(input_buffer);
LineGiven(pos) == pos > 0

\* void shell_process_char(char c)
\* pc 1: the character; pc 2: the prompt after the line; pc 3: the reset
shell_process_char ==
    /\ stack # << >> /\ Top.fn = "shell_process_char"
    /\ ShellOnly
    /\ UNCHANGED << ssd1306_buffer, display_lines, current_line >>
    /\ \/ /\ Top.pc = 1
          /\ Top.c = BS \/ Top.c = DEL
          /\ IF input_pos > 0
             THEN /\ input_pos' = input_pos - 1
                  /\ input_buffer' = [input_buffer EXCEPT ![input_pos - 1] = 0]
                  /\ SetCon(ConsolePutc(ConsolePutc(ConsolePutc(Con, BS), SPACE), BS))
                  /\ op' = [op EXCEPT !.passed = @ \o << BS, SPACE, BS >>]
             ELSE UNCHANGED << input_pos, input_buffer, console, op >>
          /\ stack' = Tail(stack)
       \/ /\ Top.pc = 1
          /\ Top.c = NewLine \/ Top.c = CR
          /\ SetCon(ConsolePutc(Con, NewLine))
          /\ input_buffer' = [input_buffer EXCEPT ![input_pos] = 0]
          /\ op' = [op EXCEPT !.passed = Append(@, NewLine)]
          /\ IF LineGiven(input_pos)
             THEN Call(F_shell_execute(CStr([input_buffer EXCEPT ![input_pos] = 0])), 2)
             ELSE Goto(2)
          /\ UNCHANGED input_pos
       \/ /\ Top.pc = 1
          /\ Top.c \notin {BS, DEL, NewLine, CR}
          /\ IF Top.c >= 32 /\ Top.c <= 126 /\ LineHasRoom(input_pos)
             THEN /\ input_buffer' = [input_buffer EXCEPT ![input_pos] = Top.c,
                                                          ![input_pos + 1] = 0]
                  /\ input_pos' = input_pos + 1
                  /\ SetCon(ConsolePutc(Con, Top.c))
                  /\ op' = [op EXCEPT !.passed = Append(@, Top.c)]
             ELSE UNCHANGED << input_pos, input_buffer, console, op >>
          /\ stack' = Tail(stack)
       \/ /\ Top.pc = 2
          /\ Call(F_shell_print(Str_prompt), 3)
          /\ UNCHANGED << input_pos, input_buffer, console, op >>
       \/ /\ Top.pc = 3
          /\ input_pos' = 0
          /\ input_buffer' = [input_buffer EXCEPT ![0] = 0]
          /\ stack' = Tail(stack)
          /\ UNCHANGED << console, op >>

---------------------------------------------------------------------------
(* SpecShell: keys arrive at shell_process_char.  The shell starts as       *)
(* shell_init leaves it with part of a line already typed; the FIFO log     *)
(* starts with shell_init.                                                  *)

MaxKeys == 2        \* keys that arrive after the typed part

\* the keys: a letter, a space, backspace, DEL, CR, LF, BEL and a byte above
\* the printable range
Keys == {120, SPACE, BS, DEL, CR, NewLine, 7, 200}

\* the typed parts: commands, near misses, unknown names of 4, 5 and 25
\* characters, spaces only, and lines of 62 and 63 characters
TypedLines ==
    { << >>,
          \* ""
      << 104, 101, 108, 112 >>,
          \* "help"
      << 104, 101, 108 >>,
          \* "hel"
      << 32, 104, 101, 108, 112 >>,
          \* " help"
      << 72, 101, 108, 112 >>,
          \* "Help"
      << 104, 101, 108, 112, 32, 99, 108, 101, 97, 114 >>,
          \* "help clear"
      << 99, 108, 101, 97, 114 >>,
          \* "clear"
      << 101, 99, 104, 111 >>,
          \* "echo"
      << 101, 99, 104, 111, 32, 104, 105 >>,
          \* "echo hi"
      << 32, 101, 99, 104, 111, 32, 32, 97, 32, 98, 32 >>,
          \* " echo  a b "
      << 97, 98, 99, 100 >>,
          \* "abcd"
      << 97, 98, 99, 100, 101 >>,
          \* "abcde"
      << 32, 32, 32 >>,
          \* "   "
      << 120, 32, 104, 101, 108, 112 >>,
          \* "x help"
      [k \in 1..25 |-> 96 + k],
      [k \in 1..62 |-> 97],
      [k \in 1..63 |-> IF k = 5 THEN SPACE ELSE 65 + (k % 26)] }

\* console_putc for every character of chars in turn
RECURSIVE PutcAll(_, _, _)
PutcAll(c, chars, i) ==
    IF i > Len(chars) THEN c
    ELSE CHOOSE r \in { PutcAll(n, chars, i + 1) : n \in { ConsolePutc(c, chars[i]) } } : TRUE

\* void shell_init(void): the three lines it prints
InitPrints == << Str_banner, Str_hint, Str_prompt >>

\* shell_print for every text of texts in turn: display_lines and current_line
RECURSIVE StoreAll(_, _, _)
StoreAll(st, texts, i) ==
    IF i > Len(texts) THEN st
    ELSE StoreAll(StoreLine(st.display_lines, st.current_line, texts[i]), texts, i + 1)

\* shell_print for every text of texts in turn: the console
RECURSIVE PrintAll(_, _, _)
PrintAll(c, texts, i) ==
    IF i > Len(texts) THEN c
    ELSE PrintAll(PrintConsole(c, texts[i]), texts, i + 1)

\* the characters shell_print passes to console_putc for the texts
RECURSIVE PrintPasses(_)
PrintPasses(texts) ==
    IF texts = << >> THEN << >>
    ELSE PutsPasses(Head(texts)) \o PutsPasses(<< NewLine >>) \o PrintPasses(Tail(texts))

\* shell_init: current_line = 0, the lines emptied, three lines printed
ShellInitLines ==
    StoreAll([display_lines |-> [i \in 0..(MAX_LINES - 1) |-> Local(LINE_SIZE)],
              current_line  |-> 0],
             InitPrints, 1)

ShellInitConsole ==
    PrintAll([buffer |-> Local(CONSOLE_BUFFER_SIZE), buffer_pos |-> 0, fifo |-> << >>],
             InitPrints, 1)

\* what a key finds: the part of the state a key that does nothing leaves
Snapshot ==
    [input_buffer |-> input_buffer, input_pos |-> input_pos,
     display_lines |-> display_lines, current_line |-> current_line,
     console |-> Con, ssd1306_buffer |-> ssd1306_buffer]

InitShell ==
    /\ BootedBus(OledConfig)
    /\ stack = << >>
    /\ ret = TRUE
    /\ wire = << >>
    /\ bits = << >>
    /\ samples = << >>
    /\ ntrans = 0
    /\ delays = 0
    /\ cmds = << >>
    /\ display_lines = ShellInitLines.display_lines
    /\ current_line = ShellInitLines.current_line
    /\ ssd1306_buffer = Refreshed(ShellInitLines.display_lines)
    /\ \E typed \in TypedLines :
          /\ input_buffer = [k \in 0..(SHELL_MAX_LINE_LENGTH - 1) |->
                               IF k < Len(typed) THEN typed[k + 1] ELSE 0]
          /\ input_pos = Len(typed)
          /\ LET c == PutcAll(ShellInitConsole, typed, 1)
             IN  buffer = c.buffer /\ buffer_pos = c.buffer_pos /\ fifo = c.fifo
          /\ op = [fn |-> "shell", keys |-> 0, keylog |-> << >>, log |-> << >>,
                   prints |-> InitPrints,
                   passed |-> PrintPasses(InitPrints) \o typed,
                   first |-> typed,
                   typed |-> typed,
                   before |-> [input_pos |-> 0]]

\* main.c: shell_process_char((char)c) with the character console_getc gave
TypeKey ==
    /\ stack = << >>
    /\ op.keys < MaxKeys
    /\ \E c \in Keys :
          /\ stack' = << F_shell_process_char(c) >>
          /\ op' = [op EXCEPT !.keys = @ + 1, !.keylog = Append(@, c), !.log = << >>,
                              !.typed = CStr(input_buffer), !.before = Snapshot]
    /\ ShellOnly
    /\ UNCHANGED << ssd1306_buffer, app >>

NextShell ==
    \/ TypeKey
    \/ shell_process_char
    \/ shell_execute
    \/ cmd_help
    \/ cmd_clear
    \/ cmd_echo
    \/ shell_print_call
    \/ shell_clear_call

SpecShell == InitShell /\ [][NextShell]_vars

\* the framebuffer given byte by byte is the one the drawing calls leave
RefreshAgrees ==
    (stack = << >> /\ op.keys = 1) => ssd1306_buffer = RefreshedByCalls(display_lines)

---------------------------------------------------------------------------
(* main.c: app_main, and the shell functions it reaches, call by call down  *)
(* to the bus primitives.  op.oled is the branch app_main took after        *)
(* ssd1306_init, op.device the remote device of the run.                    *)

\* the string literals of console_init and app_main
\* "console initialized successfully!\n"
Str_console_ready ==
    << 99, 111, 110, 115, 111, 108, 101, 32, 105, 110, 105, 116, 105, 97, 108, 105,
       122, 101, 100, 32, 115, 117, 99, 99, 101, 115, 115, 102, 117, 108, 108, 121,
       33, 10 >>

\* "\n\n=== BARE METAL OS BOOTING ===\n"
Str_booting ==
    << 10, 10, 61, 61, 61, 32, 66, 65, 82, 69, 32, 77, 69, 84, 65, 76,
       32, 79, 83, 32, 66, 79, 79, 84, 73, 78, 71, 32, 61, 61, 61, 10 >>

\* "Initializing OLED display...\n"
Str_oled_init ==
    << 73, 110, 105, 116, 105, 97, 108, 105, 122, 105, 110, 103, 32, 79, 76, 69,
       68, 32, 100, 105, 115, 112, 108, 97, 121, 46, 46, 46, 10 >>

\* "OLED initialized successfully!\n"
Str_oled_ok ==
    << 79, 76, 69, 68, 32, 105, 110, 105, 116, 105, 97, 108, 105, 122, 101, 100,
       32, 115, 117, 99, 99, 101, 115, 115, 102, 117, 108, 108, 121, 33, 10 >>

\* "OLED initialization failed!\n"
Str_oled_failed ==
    << 79, 76, 69, 68, 32, 105, 110, 105, 116, 105, 97, 108, 105, 122, 97, 116,
       105, 111, 110, 32, 102, 97, 105, 108, 101, 100, 33, 10 >>

\* "Initializing shell...\n"
Str_shell_init ==
    << 73, 110, 105, 116, 105, 97, 108, 105, 122, 105, 110, 103, 32, 115, 104, 101,
       108, 108, 46, 46, 46, 10 >>

\* "\nShell ready! Type commands in your terminal.\n"
Str_shell_ready ==
    << 10, 83, 104, 101, 108, 108, 32, 114, 101, 97, 100, 121, 33, 32, 84, 121,
       112, 101, 32, 99, 111, 109, 109, 97, 110, 100, 115, 32, 105, 110, 32, 121,
       111, 117, 114, 32, 116, 101, 114, 109, 105, 110, 97, 108, 46, 10 >>

\* "Commands will appear on the OLED display.\n\n"
Str_shell_hint ==
    << 67, 111, 109, 109, 97, 110, 100, 115, 32, 119, 105, 108, 108, 32, 97, 112,
       112, 101, 97, 114, 32, 111, 110, 32, 116, 104, 101, 32, 79, 76, 69, 68,
       32, 100, 105, 115, 112, 108, 97, 121, 46, 10, 10 >>

\* void console_init(void)
ConsoleInit(c) == ConsolePuts([c EXCEPT !.buffer_pos = 0], Str_console_ready)

\* (char)c of an int that getchar gave
ToChar(c) == c % 256

\* mutant: app_main goes to shell_init first and leaves the display out
F_app_main_ShellFirst == [fn |-> "app_main", pc |-> 4]

F_app_main == [fn |-> "app_main", pc |-> 1]
F_shell_init == [fn |-> "shell_init", pc |-> 1]

MaxBootKeys == 1    \* keys that arrive in the main loop

\* what console_getc gives in the main loop: nothing, or a key that leaves
\* the line empty (lines are the subject of SpecShell)
BootKeys == {CR, BS, 7}

\* static void shell_print(const char *text), down to shell_refresh_display
shell_print ==
    /\ stack # << >> /\ Top.fn = "shell_print"
    /\ ShellOnly
    /\ UNCHANGED << ssd1306_buffer, input_buffer, input_pos >>
    /\ IF Top.pc = 1
       THEN LET st == StoreLine(display_lines, current_line, Top.text)
            IN  /\ SetCon(PrintConsole(Con, Top.text))
                /\ display_lines' = st.display_lines
                /\ current_line' = st.current_line
                /\ op' = [Logged(op, << "print", Top.text >>) EXCEPT
                             !.passed = @ \o PutsPasses(Top.text) \o PutsPasses(<< NewLine >>),
                             !.prints = Append(@, Top.text)]
                /\ Call(F_refresh, 2)
       ELSE /\ stack' = Tail(stack)
            /\ UNCHANGED << console, display_lines, current_line, op >>

\* void shell_refresh_display(void)
\* pc 0: ssd1306_clear; pc 1..8: the lines; pc 9: ssd1306_display
shell_refresh_display ==
    /\ stack # << >> /\ Top.fn = "shell_refresh_display"
    /\ ShellOnly
    /\ UNCHANGED << op, app >>
    /\ IF Top.pc = 0
       THEN /\ ssd1306_buffer' = ClearedBuffer
            /\ Goto(1)
       ELSE /\ UNCHANGED ssd1306_buffer
            /\ IF Top.pc <= MAX_LINES
               THEN IF display_lines[Top.pc - 1][0] # 0
                    THEN Call(F_draw_string(0, (Top.pc - 1) * 8,
                                            CStr(display_lines[Top.pc - 1])), Top.pc + 1)
                    ELSE Goto(Top.pc + 1)
               ELSE IF Top.pc = MAX_LINES + 1
                    THEN Call(F_display, Top.pc + 1)
                    ELSE stack' = Tail(stack)

\* void shell_init(void)
shell_init ==
    /\ stack # << >> /\ Top.fn = "shell_init"
    /\ ShellOnly
    /\ UNCHANGED << ssd1306_buffer, console, input_buffer >>
    /\ IF Top.pc = 1
       THEN /\ input_pos' = 0
            /\ current_line' = 0
            /\ display_lines' = ClearedLines(display_lines)
            /\ op' = [op EXCEPT !.prints = << >>]
            /\ Call(F_shell_print(InitPrints[1]), 2)
       ELSE /\ UNCHANGED << input_pos, current_line, display_lines, op >>
            /\ IF Top.pc <= Len(InitPrints)
               THEN Call(F_shell_print(InitPrints[Top.pc]), Top.pc + 1)
               ELSE stack' = Tail(stack)

\* void app_main(void)
\* pc 1: the console; pc 2: ssd1306_init; pc 3: its result; pc 4: shell_init;
\* pc 5: the last messages; pc 6: the main loop
app_main ==
    /\ stack # << >> /\ Top.fn = "app_main"
    /\ ShellOnly
    /\ UNCHANGED << ssd1306_buffer, shell >>
    /\ \/ /\ Top.pc = 1
          /\ SetCon(ConsolePuts(ConsolePuts(ConsoleInit(Con), Str_booting), Str_oled_init))
          /\ op' = [op EXCEPT !.passed = @ \o PutsPasses(Str_console_ready)
                                           \o PutsPasses(Str_booting)
                                           \o PutsPasses(Str_oled_init)]
          /\ Goto(2)
       \/ /\ Top.pc = 2
          /\ Call(F_ssd1306_init(OledConfig), 3)
          /\ UNCHANGED << console, op >>
       \/ /\ Top.pc = 3
          /\ LET said == IF ret THEN Str_oled_ok ELSE Str_oled_failed
             IN  /\ SetCon(ConsolePuts(ConsolePuts(Con, said), Str_shell_init))
                 /\ op' = [op EXCEPT !.oled = IF ret THEN "ok" ELSE "failed",
                                     !.passed = @ \o PutsPasses(said)
                                                  \o PutsPasses(Str_shell_init)]
          /\ Goto(4)
       \/ /\ Top.pc = 4
          /\ Call(F_shell_init, 5)
          /\ UNCHANGED << console, op >>
       \/ /\ Top.pc = 5
          /\ SetCon(ConsolePuts(ConsolePuts(Con, Str_shell_ready), Str_shell_hint))
          /\ op' = [op EXCEPT !.passed = @ \o PutsPasses(Str_shell_ready)
                                           \o PutsPasses(Str_shell_hint)]
          /\ Goto(6)
       \/ /\ Top.pc = 6
          /\ op.keys < MaxBootKeys
          /\ \E c \in {0 - 1} \cup BootKeys :
                IF c # 0 - 1
                THEN /\ Call(F_shell_process_char(ToChar(c)), 6)
                     /\ op' = [op EXCEPT !.keys = @ + 1, !.keylog = Append(@, ToChar(c)),
                                         !.log = << >>, !.typed = CStr(input_buffer),
                                         !.before = Snapshot]
                ELSE UNCHANGED << stack, op >>
          /\ UNCHANGED console

InitBoot ==
    /\ PowerOn
    /\ AppReset
    /\ stack = << F_app_main >>
    /\ ret = TRUE
    /\ wire = << >>
    /\ bits = << >>
    /\ samples = << >>
    /\ ntrans = 0
    /\ delays = 0
    /\ cmds = << >>
    /\ \E d \in Devices :
          op = [fn |-> "app_main", device |-> d, oled |-> "none", chars |-> << >>,
                keys |-> 0, keylog |-> << >>, log |-> << >>, prints |-> << >>,
                passed |-> << >>, typed |-> << >>, before |-> [input_pos |-> 0]]

NextBoot ==
    \/ app_main
    \/ shell_init
    \/ shell_print
    \/ shell_refresh_display
    \/ shell_process_char
    \/ ssd1306_draw_string
    \/ ssd1306_init
    \/ i2c_init
    \/ ssd1306_display
    \/ ssd1306_send_command
    \/ ssd1306_send_data
    \/ i2c_write
    \/ i2c_start_call
    \/ i2c_stop_call
    \/ i2c_write_byte_call

SpecBoot == InitBoot /\ [][NextBoot]_vars

\* the framebuffer the drawing calls of shell_refresh_display leave is the one
\* given byte by byte
BootRefreshAgrees ==
    (stack # << >> /\ Top.fn = "shell_refresh_display" /\ Top.pc > MAX_LINES) =>
        ssd1306_buffer = Refreshed(display_lines)

---------------------------------------------------------------------------
(* Vocabulary of the properties *)

\* the outermost call f has returned
Returned(f) == stack = << >> /\ op.fn = f

CountEv(w, e) == Cardinality({k \in 1..Len(w) : w[k] = e})
ByteCount(w)  == Cardinality({k \in 1..Len(w) : w[k][1] = "B"})
AllAcked      == \A k \in 1..Len(samples) : samples[k] = 0

\* a whole transaction carrying the bytes bs, the master releasing SDA in
\* every acknowledge slot
WireOf(bs) == << EvStart >> \o [k \in 1..Len(bs) |-> EvByte(bs[k], 1)] \o << EvStop >>

\* the bytes the outermost write transaction is to send
TxBytes ==
    CASE op.fn = "i2c_write"         -> << U8(op.addr * 2) >> \o op.data
      [] op.fn = "i2c_write_reg"     -> << U8(op.addr * 2), op.reg >> \o op.data
      [] op.fn = "ssd1306_send_data" -> << U8(ssd1306_i2c_addr * 2), 64 >> \o op.data

WriteOps == {"i2c_write", "i2c_write_reg", "ssd1306_send_data"}

---------------------------------------------------------------------------
(* C1: whenever i2c_write, i2c_write_reg or ssd1306_send_data has returned, *)
(* with either result and whatever bytes were acknowledged, the bus saw     *)
(* exactly one start condition, first, and exactly one stop condition,      *)
(* last, and both master outputs are released high; the bus is idle         *)
(* whenever no call is in progress.                                         *)
C1_StartStopIdle ==
    stack = << >> =>
        /\ SCL = 1 /\ SDA = 1
        /\ op.fn \in WriteOps =>
              /\ ntrans = 1
              /\ Len(wire) >= 2
              /\ wire[1] = EvStart
              /\ Last(wire) = EvStop
              /\ CountEv(wire, EvStart) = 1
              /\ CountEv(wire, EvStop) = 1
              /\ CountEv(wire, EvBroken) = 0

\* ssd1306_send_data has returned false after two acknowledged bytes
C1_Witness ==
    /\ Returned("ssd1306_send_data")
    /\ ret = FALSE
    /\ samples = << 0, 0, 1 >>

---------------------------------------------------------------------------
(* C2: in i2c_write and i2c_write_reg a byte that is not acknowledged is    *)
(* the last byte clocked out: a stop follows and the call returns false;    *)
(* the call returns true exactly when every byte (address, register, all    *)
(* len data bytes) was sent and acknowledged.  With a device that never     *)
(* acknowledges only the address byte is sent, and the bus is idle again.   *)
C2_NackAborts ==
    op.fn \in {"i2c_write", "i2c_write_reg"} =>
        /\ \A k \in 1..(Len(samples) - 1) : samples[k] = 0
        /\ (samples # << >> /\ Last(samples) = 1) =>
              /\ ByteCount(wire) = Len(samples)
              /\ Len(bits) <= 1
        /\ stack = << >> =>
              /\ Len(samples) >= 1
              /\ Len(samples) <= Len(TxBytes)
              /\ wire = WireOf(SubSeq(TxBytes, 1, Len(samples)))
              /\ ret = (AllAcked /\ Len(samples) = Len(TxBytes))
              /\ (ret = FALSE) = (Last(samples) = 1)
              /\ samples[1] = 1 => wire = WireOf(<< U8(op.addr * 2) >>)
              /\ SCL = 1 /\ SDA = 1

\* i2c_write_reg has returned false because its second data byte was refused
C2_Witness ==
    /\ Returned("i2c_write_reg")
    /\ Len(op.data) = 2
    /\ samples = << 0, 0, 0, 1 >>
    /\ ret = FALSE

---------------------------------------------------------------------------
(* C3: when every byte is acknowledged, i2c_write_reg(addr, reg, data, len) *)
(* puts on the wire one start, the byte (uint8_t)(addr << 1), the byte reg, *)
(* data[0..len-1] in index order, one stop, and nothing else (len = 0:      *)
(* address and register only).                                              *)
C3_WriteRegWire ==
    (Returned("i2c_write_reg") /\ AllAcked) =>
        /\ wire = WireOf(<< U8(op.addr * 2), op.reg >> \o op.data)
        /\ Len(samples) = 2 + Len(op.data)
        /\ ret = TRUE
        /\ ntrans = 1

\* i2c_write_reg has sent two different data bytes
C3_Witness ==
    /\ Returned("i2c_write_reg")
    /\ AllAcked
    /\ op.data = << 75, 180 >>
    /\ op.reg = 180

---------------------------------------------------------------------------
(* C4: during a write transaction the master's SDA output changes while its *)
(* SCL output is high only in the start step of i2c_start (falling) and in  *)
(* the last step of i2c_stop (rising), so exactly twice in a complete       *)
(* transaction; every other SDA change happens with SCL low.                *)
C4_EdgeStep ==
    (SDA' # SDA /\ SCL = 1) =>
        /\ SCL' = 1
        /\ \/ At("i2c_start", 3) /\ SDA' = 0
           \/ At("i2c_stop", 3) /\ SDA' = 1

C4_EdgesTwice ==
    (stack = << >> /\ op.fn \in WriteOps) =>
        CountEv(wire, EvStart) + CountEv(wire, EvStop) = 2

C4_SdaStableWhileSclHigh == [][C4_EdgeStep]_vars /\ []C4_EdgesTwice

\* the stop of an aborted transaction is about to release SDA
C4_Witness ==
    /\ At("i2c_stop", 3)
    /\ samples # << >> /\ Last(samples) = 1
    /\ SCL = 1 /\ SDA = 0
    /\ op.fn = "i2c_write"

---------------------------------------------------------------------------
(* C9: i2c_write_byte(b) makes exactly nine SCL pulses.  In the first       *)
(* eight SDA carries bit 7, 6, ..., 0 of b in that order, each set while    *)
(* SCL is low and unchanged while SCL is high; in the ninth the master has  *)
(* released SDA.  On return SCL is low and SDA is released.                 *)
C9_Pulse ==
    (stack # << >> /\ Top.fn = "i2c_write_byte") =>
        LET n == (Top.pc - 1) \div 3      \* data bits already clocked out
            phase == (Top.pc - 1) % 3
        IN  /\ Top.pc <= 24 =>
                  /\ phase = 0 => (SCL = 0 /\ Len(bits) = n)
                  /\ phase = 1 => (SCL = 0 /\ SDA = Bit(Top.data, 7 - n) /\ Len(bits) = n)
                  /\ phase = 2 => (SCL = 1 /\ SDA = Bit(Top.data, 7 - n) /\ Len(bits) = n + 1)
            /\ \A k \in 1..Len(bits) : bits[k] = Bit(Top.data, 8 - k)
            /\ Top.pc \in {25, 26} => (SCL = 0 /\ Len(bits) = 8)
            /\ Top.pc = 26 => SDA = 1
            /\ Top.pc \in {27, 28} => (SCL = 1 /\ SDA = 1 /\ wire = << EvByte(Top.data, 1) >>)
            /\ Top.pc <= 28

C9_Returned ==
    Returned("i2c_write_byte") =>
        /\ wire = << EvByte(op.data, 1) >>
        /\ bits = << >>
        /\ SCL = 0
        /\ SDA = 1

\* SDA moves only while SCL is low and stays low
C9_SdaStep ==
    (stack # << >> /\ Top.fn = "i2c_write_byte" /\ SDA' # SDA) => (SCL = 0 /\ SCL' = 0)

C9_WriteByteWave == [][C9_SdaStep]_vars /\ [](C9_Pulse /\ C9_Returned)

\* i2c_write_byte(0x4B) has returned
C9_Witness ==
    /\ Returned("i2c_write_byte")
    /\ op.data = 75
    /\ wire = << EvByte(75, 1) >>

---------------------------------------------------------------------------
(* C10: i2c_write_byte takes one sample of the SDA input, while SCL is high *)
(* in the ninth pulse and after the master has released SDA, and returns    *)
(* true if and only if that sample is low; a line that stays high gives     *)
(* false.                                                                   *)
C10_AckActiveLow ==
    /\ (stack # << >> /\ Top.fn = "i2c_write_byte") =>
          /\ Top.pc <= 27 => samples = << >>
          /\ Top.pc = 27 =>
                /\ SCL = 1 /\ SDA = 1
                /\ wire = << EvByte(Top.data, 1) >>
          /\ Top.pc = 28 =>
                /\ Len(samples) = 1
                /\ Top.ack = (samples[1] = 0)
    /\ Returned("i2c_write_byte") =>
          /\ Len(samples) = 1
          /\ ret = (samples[1] = 0)

\* the line stayed high in the acknowledge slot and the call returned false
C10_Witness ==
    /\ Returned("i2c_write_byte")
    /\ samples = << 1 >>
    /\ ret = FALSE

---------------------------------------------------------------------------
(* C8: for 0 <= x < 128, 0 <= y < 64 and every colour, ssd1306_set_pixel    *)
(* makes bit (y & 7) of framebuffer byte x + (y / 8) * 128 equal to 1 if    *)
(* the colour is non-zero and to 0 otherwise, and changes no other bit;     *)
(* for x or y outside those ranges, negative ones included, it leaves the   *)
(* framebuffer as it was.                                                   *)

\* the byte whose bit b is v and whose other bits are those of old
WithBit(old, b, v) ==
    LET digit(j) == IF j = b THEN v ELSE Bit(old, j)
    IN  digit(0) + 2 * digit(1) + 4 * digit(2) + 8 * digit(3) + 16 * digit(4)
          + 32 * digit(5) + 64 * digit(6) + 128 * digit(7)

C8_Step ==
    (op.fn = "none" /\ op'.fn = "ssd1306_set_pixel") =>
        LET x == op'.x
            y == op'.y
            v == IF op'.color # 0 THEN 1 ELSE 0
        IN  IF 0 <= x /\ x < 128 /\ 0 <= y /\ y < 64
            THEN /\ Bit(ssd1306_buffer'[x + (y \div 8) * 128], y % 8) = v
                 /\ ssd1306_buffer' =
                       [ssd1306_buffer EXCEPT ![x + (y \div 8) * 128] = WithBit(@, y % 8, v)]
            ELSE ssd1306_buffer' = ssd1306_buffer

C8_SetPixel == [][C8_Step]_vars

\* the last pixel of the display has been cleared in a byte that was 0xE6
C8_Witness ==
    /\ op.fn = "ssd1306_set_pixel"
    /\ op.x = 127 /\ op.y = 63 /\ op.color = 0
    /\ ssd1306_buffer[1023] = 102
    /\ ssd1306_buffer[1022] = 193

---------------------------------------------------------------------------
(* C5: ssd1306_init issues the bring-up commands in this order, each in a   *)
(* command transaction of its own: 0xAE, 0xD5, 0x80, 0xA8, 0x3F, 0xD3,      *)
(* 0x00, 0x40, 0x8D, 0x14, 0x20, 0x00, 0xA1, 0xC8, 0xDA, 0x12, 0x81, the    *)
(* contrast level, 0xD9, 0xF1, 0xDB, 0x40, 0xA4, 0xA6, 0xAF; none is left   *)
(* out, repeated or moved.                                                  *)

\* the list of the claim; the contrast level (18th) is any byte
C5_BringUp ==
    << 174, 213, 128, 168, 63, 211, 0, 64, 141, 20, 32, 0, 161, 200, 218, 18,
       129, 0, 217, 241, 219, 64, 164, 166, 175 >>

C5_Matches(k, c) == IF k = 18 THEN c \in 0..255 ELSE c = C5_BringUp[k]

C5_InitOrder ==
    op.fn = "ssd1306_init" =>
        /\ \A k \in 1..Len(cmds) : k <= 25 => C5_Matches(k, cmds[k])
        /\ ntrans \in {Len(cmds) - 1, Len(cmds), Len(cmds) + 1}
        /\ (At("ssd1306_send_command", "after") /\ Len(cmds) <= 25) =>
              /\ ntrans = Len(cmds)
              /\ Last(wire) = EvStop
              /\ AllAcked => (Len(wire) = 5 /\ wire[4] = EvByte(Last(cmds), 1))
        /\ (stack # << >> /\ Top.fn = "ssd1306_init" /\ Top.pc > 25) =>
              (Len(cmds) >= 25 /\ cmds[1] = 174 /\ cmds[25] = 175)
        /\ stack = << >> => Len(cmds) = 25 + 6

\* the last bring-up command, display on, has gone out acknowledged
C5_Witness ==
    /\ op.fn = "ssd1306_init"
    /\ At("ssd1306_send_command", "after")
    /\ Len(cmds) = 25
    /\ AllAcked
    /\ wire = WireOf(<< 120, 128, 175 >>)

---------------------------------------------------------------------------
(* C6: when every byte is acknowledged, ssd1306_display sends the whole     *)
(* framebuffer in one data-stream transaction: start, address << 1, 0x40,   *)
(* the 1024 framebuffer bytes in ascending index order, stop; after its six *)
(* command transactions there is exactly one more transaction.  While that  *)
(* transaction is under way, the k-th byte after the control byte is        *)
(* framebuffer byte k.                                                      *)
C6_DisplayStream ==
    /\ ntrans = Len(cmds) + 1 =>
          /\ \A k \in 2..Len(wire) :
                \/ wire[k] = EvStop /\ k = Len(wire)
                \/ k = 2 /\ wire[k] = EvByte(U8(ssd1306_i2c_addr * 2), 1)
                \/ k = 3 /\ wire[k] = EvByte(SSD1306_CONTROL_DATA_STREAM, 1)
                \/ k > 3 /\ wire[k] = EvByte(ssd1306_buffer[k - 4], 1)
    /\ (Returned("ssd1306_display") /\ AllAcked) =>
          /\ wire = WireOf(<< U8(ssd1306_i2c_addr * 2), 64 >> \o ArrSeq(ssd1306_buffer, 1024))
          /\ Len(samples) = 2 + 1024
          /\ Len(cmds) = 6
          /\ ntrans = Len(cmds) + 1

\* a framebuffer with one pixel lit has been sent whole
C6_Witness ==
    /\ Returned("ssd1306_display")
    /\ AllAcked
    /\ ssd1306_buffer[133] = 2
    /\ Len(wire) = 1028
    /\ wire[2 + 2 + 133] = EvByte(2, 1)

---------------------------------------------------------------------------
(* C7: every command the display driver sends is a bus transaction of its   *)
(* own: start, address << 1, control byte 0x80, the command byte, stop;     *)
(* commands never share a transaction and never carry the data control      *)
(* byte 0x40.  (A transaction cut short by a missing acknowledge is a       *)
(* prefix of that, closed by its stop.)                                     *)

\* the ssd1306_send_command frame the program is in, if any
CmdDepth == { k \in 1..Len(stack) : stack[k].fn = "ssd1306_send_command" }
CmdFrame == stack[CHOOSE k \in CmdDepth : TRUE]
C7_Packet == << U8(ssd1306_i2c_addr * 2), 128, CmdFrame.cmd >>

C7_CommandFrames ==
    CmdDepth # {} =>
        /\ Cardinality(CmdDepth) = 1
        /\ ntrans \in {Len(cmds) - 1, Len(cmds)}
        /\ (ntrans = Len(cmds) /\ CmdFrame.pc = "after") =>
              /\ wire # << >>
              /\ wire[1] = EvStart
              /\ \A k \in 2..Len(wire) :
                    \/ k <= 4 /\ wire[k] = EvByte(C7_Packet[k - 1], 1)
                    \/ k = Len(wire) /\ wire[k] = EvStop
        /\ At("ssd1306_send_command", "after") =>
              /\ ntrans = Len(cmds)
              /\ wire = WireOf(SubSeq(C7_Packet, 1, Len(samples)))
              /\ AllAcked => (Len(samples) = 3 /\ ret = TRUE)

\* ssd1306_invert_display(true) has sent its command
C7_Witness ==
    /\ op.fn = "ssd1306_invert_display"
    /\ At("ssd1306_send_command", "after")
    /\ wire = WireOf(<< 120, 128, 167 >>)

---------------------------------------------------------------------------
(* C11: i2c_start, called with the bus idle (SCL and SDA high), pulls SDA   *)
(* low while SCL is still high and only then pulls SCL low; it ends with    *)
(* both lines low, has made one start condition, and returns true.          *)
C11_Levels ==
    /\ (stack # << >> /\ Top.fn = "i2c_start" /\ op.fn = "i2c_start") =>
          /\ Top.pc <= 3 => (SCL = 1 /\ SDA = 1 /\ wire = << >>)
          /\ Top.pc = 4 => (SCL = 1 /\ SDA = 0 /\ wire = << EvStart >>)
    /\ Returned("i2c_start") =>
          /\ SCL = 0 /\ SDA = 0
          /\ wire = << EvStart >>
          /\ ret = TRUE

\* inside i2c_start the clock falls only after the data line is low
C11_ClockStep ==
    (stack # << >> /\ Top.fn = "i2c_start" /\ SCL' < SCL) => (SDA = 0 /\ SDA' = 0)

C11_StartCondition == [][C11_ClockStep]_vars /\ []C11_Levels

\* i2c_start has returned from a call made on the idle bus
C11_Witness ==
    /\ Returned("i2c_start")
    /\ SCL = 0 /\ SDA = 0
    /\ wire = << EvStart >>

---------------------------------------------------------------------------
(* C12: i2c_stop raises SCL before it releases SDA, so SDA rises only while *)
(* SCL is high: one stop condition and no start condition; both lines are   *)
(* left high.                                                               *)
C12_Levels ==
    /\ (stack # << >> /\ Top.fn = "i2c_stop" /\ op.fn = "i2c_stop") =>
          /\ Top.pc = 1 => SCL = 0
          /\ Top.pc = 2 => (SCL = 0 /\ SDA = 0)
          /\ Top.pc = 3 => (SCL = 1 /\ SDA = 0)
          /\ wire = << >>
    /\ Returned("i2c_stop") =>
          /\ SCL = 1 /\ SDA = 1
          /\ wire = << EvStop >>
          /\ CountEv(wire, EvStart) = 0

\* inside i2c_stop the data line rises only while the clock is high
C12_DataStep ==
    (stack # << >> /\ Top.fn = "i2c_stop" /\ SDA' > SDA) => (SCL = 1 /\ SCL' = 1)

C12_StopCondition == [][C12_DataStep]_vars /\ []C12_Levels

\* i2c_stop has returned after a call made with SDA released
C12_Witness ==
    /\ Returned("i2c_stop")
    /\ wire = << EvStop >>
    /\ SCL = 1 /\ SDA = 1

---------------------------------------------------------------------------
(* C13: i2c_read_byte(ack) returns the byte whose bits 7, 6, ..., 0 are the *)
(* SDA samples of the first to the eighth SCL-high phase, taken with SDA    *)
(* released by the master; in the ninth pulse the master drives SDA low     *)
(* exactly when ack is true; SDA is released again when the call returns.   *)
C13_ReadByte ==
    /\ (stack # << >> /\ Top.fn = "i2c_read_byte") =>
          /\ Top.pc = 3 => (SCL = 1 /\ SDA = 1 /\ Len(samples) = 7 - Top.i)
          /\ Len(samples) <= 8
          /\ \A k \in 1..8 : Bit(Top.data, 8 - k) = IF k <= Len(samples) THEN samples[k] ELSE 0
          /\ \A k \in 1..Len(bits) : k <= 8 => bits[k] = 1
          /\ Top.pc = 7 =>
                /\ SCL = 1
                /\ SDA = (IF Top.ack THEN 0 ELSE 1)
                /\ wire = << EvByte(255, IF Top.ack THEN 0 ELSE 1) >>
    /\ Returned("i2c_read_byte") =>
          /\ Len(samples) = 8
          /\ op.result = BitsVal(samples)
          /\ \A k \in 1..8 : Bit(op.result, 8 - k) = samples[k]
          /\ wire = << EvByte(255, IF op.ack THEN 0 ELSE 1) >>
          /\ bits = << >>
          /\ SCL = 0 /\ SDA = 1

\* 0xA5 has been read and acknowledged
C13_Witness ==
    /\ Returned("i2c_read_byte")
    /\ samples = << 1, 0, 1, 0, 0, 1, 0, 1 >>
    /\ op.result = 165
    /\ op.ack = TRUE

---------------------------------------------------------------------------
(* C14: the first byte of every write transaction (i2c_write,               *)
(* i2c_write_reg, ssd1306_send_data) is the 7-bit address the caller passed *)
(* unshifted, shifted left by one and cut to 8 bits, with bit 0 (read/write)*)
(* equal to 0: 0x3C goes out as 0x78 and 0x3D as 0x7A.  The display driver  *)
(* holds its address unshifted.                                             *)

\* the address the outermost write transaction was given
C14_Addr == IF op.fn = "ssd1306_send_data" THEN ssd1306_i2c_addr ELSE op.addr

C14_AddressByte ==
    /\ ssd1306_i2c_addr \in {SSD1306_I2C_ADDR_DEFAULT, SSD1306_I2C_ADDR_ALT}
    /\ (op.fn \in WriteOps /\ Len(wire) >= 2) =>
          /\ wire[1] = EvStart
          /\ wire[2][1] = "B"
          /\ wire[2][2] = (2 * C14_Addr) % 256
          /\ wire[2][2] % 2 = 0
          /\ C14_Addr < 128 => wire[2][2] \div 2 = C14_Addr
          /\ C14_Addr = 60 => wire[2][2] = 120
          /\ C14_Addr = 61 => wire[2][2] = 122

\* the framebuffer transfer to the device at 0x3D has sent its address byte
C14_Witness ==
    /\ op.fn = "ssd1306_send_data"
    /\ ssd1306_i2c_addr = 61
    /\ Len(wire) >= 2
    /\ wire[2] = EvByte(122, 1)

---------------------------------------------------------------------------
(* C15: every bus and display operation terminates, whatever the SDA input  *)
(* presents, after at most a number of i2c_delay() calls fixed by its       *)
(* arguments: exactly that number for i2c_start (4), i2c_stop (3),          *)
(* i2c_write_byte (27) and i2c_read_byte (21), and for the transactions     *)
(* when every byte is acknowledged; a transaction cut short by a missing    *)
(* acknowledge takes fewer (27 for each byte clocked, 4 for the start, 3    *)
(* for the stop).  No step waits for the remote device: a running call can  *)
(* always take a step, and each step takes a measure down that its          *)
(* arguments fixed at the call.                                             *)

\* the delays of one transaction that clocks n bytes
C15_Trans(n) == 4 + 27 * n + 3

\* the delays of the outermost call when nothing cuts it short
C15_Full ==
    CASE op.fn = "i2c_start"         -> 4
      [] op.fn = "i2c_stop"          -> 3
      [] op.fn = "i2c_write_byte"    -> 27
      [] op.fn = "i2c_read_byte"     -> 21
      [] op.fn = "i2c_write"         -> C15_Trans(1 + Len(op.data))
      [] op.fn = "i2c_write_reg"     -> C15_Trans(2 + Len(op.data))
      [] op.fn = "ssd1306_display"   -> 6 * C15_Trans(3) + C15_Trans(2 + 1024)
      [] op.fn = "ssd1306_init"      -> 2 + 31 * C15_Trans(3) + C15_Trans(2 + 1024)
      [] OTHER                       -> 0

C15_Bounded ==
    /\ delays <= C15_Full
    /\ (stack = << >> /\ op.fn \in {"i2c_start", "i2c_stop", "i2c_write_byte", "i2c_read_byte"})
          => delays = C15_Full
    /\ (stack = << >> /\ op.fn \in {"i2c_write", "i2c_write_reg"}) =>
          /\ delays = C15_Trans(Len(samples))
          /\ AllAcked => delays = C15_Full
    /\ (stack = << >> /\ op.fn \in {"ssd1306_init", "ssd1306_display"}) =>
          /\ op.device = "low" => delays = C15_Full
          /\ op.device = "absent" =>
                delays = C15_Full - (IF op.fn = "ssd1306_init" THEN 31 ELSE 6) * 27 * 2
                                  - 27 * (1 + 1024)

\* the steps a transaction still takes when n payload bytes are left:
\* one byte each (the call and its 28 steps), then the stop and the return
C15_Rest(n) == 29 * n + 5

\* the steps of a whole i2c_write of n bytes, of a whole command, of a whole
\* data transaction of n bytes and of a whole refresh
C15_Write(n) == 34 + C15_Rest(n)
C15_Command == 1 + C15_Write(2) + 1
C15_Data(n) == 63 + C15_Rest(n)
C15_Display == 6 * (1 + C15_Command) + 1 + C15_Data(BUFFER_SIZE) + 1

\* the steps an activation still takes once the calls it waits on are back
C15_FrameRank(fr) ==
    CASE fr.fn = "i2c_start"      -> 5 - fr.pc
      [] fr.fn = "i2c_stop"       -> 4 - fr.pc
      [] fr.fn = "i2c_write_byte" -> 29 - fr.pc
      [] fr.fn = "i2c_read_byte"  ->
            IF fr.pc = 1 THEN 29
            ELSE IF fr.pc <= 4 THEN (5 - fr.pc) + 3 * fr.i + 4
            ELSE 9 - fr.pc
      [] fr.fn = "i2c_init"       -> 5 - fr.pc
      [] fr.fn \in {"i2c_write", "i2c_write_reg", "ssd1306_send_data"} ->
            LET head == IF fr.fn = "i2c_write" THEN 0 ELSE 29
            IN  CASE fr.pc = "entry"       -> 34 + head + C15_Rest(fr.len)
                  [] fr.pc = "after_start" -> 29 + head + C15_Rest(fr.len)
                  [] fr.pc = "after_addr"  -> head + C15_Rest(fr.len)
                  [] fr.pc \in {"after_reg", "after_ctrl"} -> C15_Rest(fr.len)
                  [] fr.pc = "after_data"  -> C15_Rest(fr.len - fr.i - 1)
                  [] OTHER                 -> 1
      [] fr.fn = "ssd1306_send_command" ->
            IF fr.pc = "entry" THEN C15_Command ELSE 1
      [] fr.fn = "ssd1306_display" ->
            IF fr.pc <= Len(DisplayCmds)
            THEN (Len(DisplayCmds) + 1 - fr.pc) * (1 + C15_Command)
                 + 1 + C15_Data(BUFFER_SIZE) + 1
            ELSE IF fr.pc = Len(DisplayCmds) + 1 THEN 1 + C15_Data(BUFFER_SIZE) + 1
            ELSE 1
      [] fr.fn = "ssd1306_init" ->
            IF fr.pc = 0
            THEN 5 + Len(InitCmds) * (1 + C15_Command) + 1 + C15_Display + 1
            ELSE IF fr.pc <= Len(InitCmds)
            THEN (Len(InitCmds) + 1 - fr.pc) * (1 + C15_Command) + 1 + C15_Display + 1
            ELSE IF fr.pc = Len(InitCmds) + 1 THEN 1 + C15_Display + 1
            ELSE 1
      [] OTHER -> 0

RECURSIVE C15_SumRank(_)
C15_SumRank(st) ==
    IF st = << >> THEN 0 ELSE C15_FrameRank(Head(st)) + C15_SumRank(Tail(st))

\* the steps the running call can still take: fixed, at the call, by its
\* arguments alone
C15_Rank == C15_SumRank(stack)

\* every step of a running call takes the measure down; a step that starts
\* a call sets it from the arguments
C15_Step ==
    /\ stack # << >> => (C15_Rank' < C15_Rank /\ C15_Rank' >= 0)
    /\ (stack = << >> /\ stack' # << >>) =>
          C15_Rank' = CASE op'.fn = "i2c_start"       -> 4
                        [] op'.fn = "i2c_stop"        -> 3
                        [] op'.fn = "i2c_write_byte"  -> 28
                        [] op'.fn = "i2c_read_byte"   -> 29
                        [] op'.fn = "i2c_write"       -> C15_Write(Len(op'.data))
                        [] op'.fn = "i2c_write_reg"   -> 29 + C15_Write(Len(op'.data))
                        [] op'.fn = "ssd1306_display" -> C15_Display
                        [] op'.fn = "ssd1306_init"    ->
                              5 + Len(InitCmds) * (1 + C15_Command) + 2 + C15_Display
                        [] OTHER                      -> 0

\* a running call is never stuck
C15_NoWait == stack # << >> => ENABLED Run

C15_Terminates == [][C15_Step]_vars /\ [](C15_Bounded /\ C15_NoWait)

\* i2c_write has given up on a device that did not acknowledge its address
C15_Witness ==
    /\ Returned("i2c_write")
    /\ Len(op.data) = 2
    /\ samples = << 1 >>
    /\ delays = 34

\* the claim as made: the number of steps is fixed by the arguments alone
C15_FixedWhateverSda ==
    (stack = << >> /\ op.fn # "none") => delays = C15_Full

---------------------------------------------------------------------------
(* C16: the driver never retries after a missing acknowledge.  For every    *)
(* pattern of acknowledge outcomes, ssd1306_init starts its 25 bring-up     *)
(* commands and then the refresh, and ssd1306_display its six address       *)
(* commands and then the data transaction, each once and in the same        *)
(* order: the commands handed to ssd1306_send_command are always a prefix   *)
(* of that list, each gets one transaction with one start, a transaction    *)
(* whose byte is not acknowledged is closed by a stop and reported failed,  *)
(* and on return every command has gone out and exactly one transaction     *)
(* more than the commands has been started.                                 *)

\* the commands of the outermost call, in program order
C16_Expected == IF op.fn = "ssd1306_init" THEN InitCmds \o DisplayCmds ELSE DisplayCmds

C16_NoRetry ==
    op.fn \in {"ssd1306_init", "ssd1306_display"} =>
        /\ Len(cmds) <= Len(C16_Expected)
        /\ cmds = SubSeq(C16_Expected, 1, Len(cmds))
        /\ ntrans \in {Len(cmds) - 1, Len(cmds), Len(cmds) + 1}
        /\ ntrans = Len(cmds) + 1 => Len(cmds) = Len(C16_Expected)
        /\ CountEv(wire, EvStart) <= 1
        /\ At("ssd1306_send_command", "after") =>
              /\ ntrans = Len(cmds)
              /\ Last(wire) = EvStop
              /\ CountEv(wire, EvStop) = 1
              /\ ret = AllAcked
              /\ ~AllAcked => (Last(samples) = 1 /\ Len(wire) = Len(samples) + 2)
        /\ stack = << >> =>
              /\ cmds = C16_Expected
              /\ ntrans = Len(C16_Expected) + 1
              /\ Last(wire) = EvStop
              /\ CountEv(wire, EvStop) = 1

\* the bring-up has returned after a refresh whose data transaction was not
\* acknowledged: all 31 commands and the one data transaction were started
C16_Witness ==
    /\ Returned("ssd1306_init")
    /\ samples = << 0, 1 >>
    /\ wire = WireOf(<< 120, 64 >>)
    /\ Len(cmds) = 31
    /\ ntrans = 32

---------------------------------------------------------------------------
(* C17: ssd1306_display performs exactly seven bus transactions in this     *)
(* order: six command transactions of one byte each, carrying 0x21, 0, 127  *)
(* (the column address range 0..127) and 0x22, 0, 7 (the page address range *)
(* 0..7), then one data-stream transaction carrying the framebuffer.        *)

C17_Bytes == << 33, 0, 127, 34, 0, 7 >>

C17_SevenTransactions ==
    op.fn = "ssd1306_display" =>
        /\ ntrans <= 7
        /\ Len(cmds) <= 6
        /\ \A k \in 1..Len(cmds) : cmds[k] = C17_Bytes[k]
        /\ (ntrans \in 1..6 /\ Len(wire) >= 3 /\ wire[3] # EvStop) =>
              wire[3] = EvByte(SSD1306_CONTROL_CMD_SINGLE, 1)
        /\ (ntrans \in 1..6 /\ Len(wire) >= 4 /\ wire[4] # EvStop) =>
              /\ wire[4] = EvByte(C17_Bytes[ntrans], 1)
              /\ Len(wire) <= 5
        /\ (ntrans = 7 /\ Len(wire) >= 3 /\ wire[3] # EvStop) =>
              wire[3] = EvByte(SSD1306_CONTROL_DATA_STREAM, 1)
        /\ (ntrans = 7 /\ Len(wire) >= 4 /\ wire[4] # EvStop) =>
              wire[4] = EvByte(ssd1306_buffer[0], 1)
        /\ stack = << >> => (ntrans = 7 /\ Len(cmds) = 6)

\* the sixth command transaction, the last page, has gone out acknowledged
C17_Witness ==
    /\ op.fn = "ssd1306_display"
    /\ At("ssd1306_send_command", "after")
    /\ ntrans = 6
    /\ cmds = C17_Bytes
    /\ wire = WireOf(<< 120, 128, 7 >>)

\* the claim as made: three transactions
C17_ThreeTransactions == Returned("ssd1306_display") => ntrans = 3

---------------------------------------------------------------------------
(* C18: the command transactions ssd1306_init issues form exactly the fixed *)
(* 25-command bring-up sequence, byte for byte (the contrast level after    *)
(* 0x81 being the one byte not fixed here), including both mirror/scan      *)
(* commands 0xA1 and 0xC8; exactly 25 command transactions are issued for   *)
(* the bring-up, and the refresh that closes ssd1306_init adds its six      *)
(* address commands, 31 command transactions in all.                        *)

\* the bring-up has sent its commands and is about to clear and refresh
C18_BroughtUp == At("ssd1306_init", Len(InitCmds) + 1)

C18_Sequence ==
    << 174, 213, 128, 168, 63, 211, 0, 64, 141, 20, 32, 0, 161, 200, 218, 18,
       129 >>

C18_Tail == << 217, 241, 219, 64, 164, 166, 175 >>

C18_Captured(cs) ==
    /\ Len(cs) >= 25
    /\ SubSeq(cs, 1, 17) = C18_Sequence
    /\ cs[18] \in 0..255
    /\ SubSeq(cs, 19, 25) = C18_Tail
    /\ cs[13] = 161 /\ cs[14] = 200

C18_InitSequence ==
    op.fn = "ssd1306_init" =>
        /\ C18_BroughtUp =>
              /\ Len(cmds) = 25
              /\ ntrans = 25
              /\ C18_Captured(cmds)
              /\ AllAcked => wire = WireOf(<< U8(ssd1306_i2c_addr * 2), 128, 175 >>)
        /\ stack = << >> =>
              /\ Len(cmds) = 31
              /\ C18_Captured(cmds)
              /\ SubSeq(cmds, 26, 31) = << 33, 0, 127, 34, 0, 7 >>
              /\ ntrans = 32

\* the 25th command, display on, has gone out and the bring-up is over
C18_Witness ==
    /\ op.fn = "ssd1306_init"
    /\ C18_BroughtUp
    /\ AllAcked
    /\ cmds[25] = 175
    /\ ntrans = 25

\* the claim as made: 27 command transactions
C18_TwentySeven ==
    (op.fn = "ssd1306_init" /\ (C18_BroughtUp \/ stack = << >>)) => Len(cmds) = 27

---------------------------------------------------------------------------
(* C19: during bring-up the byte sent right after the contrast opcode 0x81  *)
(* is the maximum level 0xFF.                                               *)
C19_ContrastMax ==
    (op.fn = "ssd1306_init" /\ Len(cmds) >= 18 /\ cmds[17] = SSD1306_CMD_SET_CONTRAST)
        => cmds[18] = 255

---------------------------------------------------------------------------
(* C20: ssd1306_draw_string(x, y, s) draws the characters of s other than   *)
(* '\n', in order, each at the cursor: the first at column x, the next 6    *)
(* columns further on the same row while that column is below 128;          *)
(* otherwise (the cursor would reach 128 or more) the cursor goes back to x *)
(* and the row advances by 8.  A '\n' draws nothing, sets the cursor back   *)
(* to x and advances the row by 8.                                          *)

C20_Printed(c) == c # NewLine

\* the line breaks of s strictly between positions a and b
C20_Breaks(s, a, b) == Cardinality({ k \in (a + 1)..(b - 1) : s[k] = NewLine })

\* the part of the string the loop has gone through
C20_Done == IF stack = << >> THEN Len(op.str) ELSE Top.pc - 1

C20_Layout ==
    op.fn = "ssd1306_draw_string" =>
        LET s  == op.str
            ch == op.chars
        IN  /\ [k \in 1..Len(ch) |-> ch[k][3]]
                  = SelectSeq(SubSeq(s, 1, C20_Done), C20_Printed)
            /\ \A k \in 1..Len(ch) : s[ch[k][4]] = ch[k][3]
            /\ Len(ch) >= 1 =>
                  /\ ch[1][1] = op.x
                  /\ ch[1][2] = op.y + 8 * C20_Breaks(s, 0, ch[1][4])
            /\ \A k \in 1..(Len(ch) - 1) :
                  LET a    == ch[k]
                      b    == ch[k + 1]
                      nl   == C20_Breaks(s, a[4], b[4])
                      full == a[1] + 6 >= 128
                  IN  IF nl = 0 /\ ~full
                      THEN b[1] = a[1] + 6 /\ b[2] = a[2]
                      ELSE /\ b[1] = op.x
                           /\ b[2] = a[2] + 8 * (nl + (IF full THEN 1 ELSE 0))

\* the turn of the loop that meets a '\n'
C20_NewlineStep ==
    (/\ At("ssd1306_draw_string", Top.pc)
     /\ Top.pc <= Len(Top.str)
     /\ Top.str[Top.pc] = NewLine)
        => /\ ssd1306_buffer' = ssd1306_buffer
           /\ op'.chars = op.chars
           /\ stack'[1].cursor_x = op.x
           /\ stack'[1].y = Top.y + 8

C20_DrawString == [][C20_NewlineStep]_vars /\ []C20_Layout

\* a line of 22 characters from column 0 has filled its row, the last at
\* column 126, and the character after the line break is two rows down
C20_Witness ==
    /\ Returned("ssd1306_draw_string")
    /\ op.x = 0 /\ op.y = 0
    /\ Len(op.chars) = 23
    /\ op.chars[2] = << 6, 0, 65, 2 >>
    /\ op.chars[22] = << 126, 0, 65, 22 >>
    /\ op.chars[23] = << 0, 16, 65, 24 >>

---------------------------------------------------------------------------
(* C21: ssd1306_draw_string does not test the row itself.  When text runs   *)
(* past the bottom row (y >= 64) the pixels of those characters are dropped *)
(* by the range check of ssd1306_set_pixel: a character drawn at a row of   *)
(* 64 or more leaves every framebuffer byte as it was, and every pixel a    *)
(* character does write has its byte index within 0..1023.                  *)

\* the turn of the loop draws a character
C21_Draws ==
    /\ stack # << >>
    /\ Top.fn = "ssd1306_draw_string"
    /\ Top.pc <= Len(Top.str)
    /\ Top.str[Top.pc] # NewLine

C21_Step ==
    (C21_Draws /\ Top.y >= SSD1306_HEIGHT) => ssd1306_buffer' = ssd1306_buffer

C21_InRange ==
    op.fn = "ssd1306_draw_string" =>
        /\ DOMAIN ssd1306_buffer = 0..(BUFFER_SIZE - 1)
        /\ \A k \in 1..Len(op.chars), i \in 0..4, j \in 0..6 :
              InBounds(op.chars[k][1] + i, op.chars[k][2] + j) =>
                  PixelIndex(op.chars[k][1] + i, op.chars[k][2] + j)
                      \in 0..(BUFFER_SIZE - 1)

C21_BottomDropped == [][C21_Step]_vars /\ []C21_InRange

\* after two line breaks from row 52 an 'A' was drawn at row 68 and the
\* cleared framebuffer is still blank
C21_Witness ==
    /\ Returned("ssd1306_draw_string")
    /\ op.chars = << << 0, 68, 65, 3 >> >>
    /\ ssd1306_buffer = ClearedBuffer

\* the claim as made: a non-blank character drawn past the bottom row changes
\* some framebuffer byte
C21_WrappedIndex ==
    [][(C21_Draws /\ Top.y >= SSD1306_HEIGHT /\ GlyphIndex(Top.str[Top.pc]) # 0)
          => ssd1306_buffer' # ssd1306_buffer]_vars

---------------------------------------------------------------------------
(* C22: on a cleared framebuffer, drawing a string of N printable           *)
(* characters (codes 32..126) at (0, 0) that fits within one row (N <= 21)  *)
(* sets exactly the pixels of each character's glyph at column offset 6 * k *)
(* for the k-th character (k from 0): pixel (6k + i, j) is set exactly when *)
(* bit j of glyph column i is, and no other pixel of the display is set.    *)
(* The same holds of the characters drawn so far while the call runs.       *)

\* pixel (px, py) as the display controller reads it from the buffer
C22_Pixel(buf, px, py) == Bit(buf[px + SSD1306_WIDTH * (py \div 8)], py % 8)

C22_OneRow ==
    /\ op.fn = "ssd1306_draw_string"
    /\ op.x = 0 /\ op.y = 0
    /\ op.before = ClearedBuffer
    /\ Len(op.str) <= 21
    /\ \A k \in 1..Len(op.str) : op.str[k] \in 32..126

C22_GlyphPixels ==
    C22_OneRow =>
        \A px \in 0..(SSD1306_WIDTH - 1), py \in 0..(SSD1306_HEIGHT - 1) :
            LET k == px \div 6
                i == px % 6
            IN  C22_Pixel(ssd1306_buffer, px, py) =
                    IF k < C20_Done /\ i <= 4 /\ py <= 6
                    THEN Bit(font5x7(op.str[k + 1] - 32)[i + 1], py)
                    ELSE 0

\* the 21 characters of a full row have been drawn: the last glyph stands in
\* columns 120..124
C22_Witness ==
    /\ Returned("ssd1306_draw_string")
    /\ C22_OneRow
    /\ op.str = FullRow
    /\ ssd1306_buffer[120] = font5x7(FullRow[21] - 32)[1]
    /\ ssd1306_buffer[120] # 0
    /\ ssd1306_buffer[125] = 0

---------------------------------------------------------------------------
(* C23: ssd1306_fill_rect(x, y, w, h, c) sets to c (on for c # 0, off for   *)
(* c = 0) exactly the pixels (i, j) with x <= i < x + w and y <= j < y + h  *)
(* that lie inside the 128x64 display and changes no other pixel; parts of  *)
(* the rectangle outside the display are ignored and w <= 0 or h <= 0       *)
(* changes nothing.  On a cleared buffer, fill_rect(10, 10, 20, 20, 1)      *)
(* followed by set_pixel(15, 15, 0) leaves exactly 399 pixels set.          *)

C23_Pixel(buf, px, py) == Bit(buf[(py \div 8) * SSD1306_WIDTH + px], py % 8)

C23_Lit(buf) ==
    Cardinality({ p \in (0..(SSD1306_WIDTH - 1)) \X (0..(SSD1306_HEIGHT - 1)) :
                    C23_Pixel(buf, p[1], p[2]) = 1 })

C23_Scenario ==
    /\ op.fn = "ssd1306_set_pixel"
    /\ "prev" \in DOMAIN op
    /\ op.x = 15 /\ op.y = 15 /\ op.color = 0
    /\ op.prev.x = 10 /\ op.prev.y = 10 /\ op.prev.w = 20 /\ op.prev.h = 20
    /\ op.prev.color = 1
    /\ op.prev.before = ClearedBuffer

C23_FillRect ==
    /\ Returned("ssd1306_fill_rect") =>
          /\ \A px \in 0..(SSD1306_WIDTH - 1), py \in 0..(SSD1306_HEIGHT - 1) :
                C23_Pixel(ssd1306_buffer, px, py) =
                    IF /\ op.x <= px /\ px < op.x + op.w
                       /\ op.y <= py /\ py < op.y + op.h
                    THEN (IF op.color # 0 THEN 1 ELSE 0)
                    ELSE C23_Pixel(op.before, px, py)
          /\ (op.w <= 0 \/ op.h <= 0) => ssd1306_buffer = op.before
    /\ C23_Scenario => C23_Lit(ssd1306_buffer) = 399

\* the scenario of the claim has run
C23_Witness ==
    /\ C23_Scenario
    /\ stack = << >>
    /\ C23_Pixel(ssd1306_buffer, 15, 15) = 0
    /\ C23_Pixel(ssd1306_buffer, 29, 29) = 1
    /\ C23_Lit(ssd1306_buffer) = 399

---------------------------------------------------------------------------
(* C24: for every character code outside the printable range 32..126        *)
(* (control characters, 127, codes above 127, or negative where char is     *)
(* signed) ssd1306_draw_char leaves the framebuffer exactly as drawing a    *)
(* space (code 32) at the same place does, and for every code a char can    *)
(* hold the index the glyph table is read at lies within 0..94.             *)
C24_SpaceForUnprintable ==
    Returned("ssd1306_draw_char") =>
        /\ op.index \in 0..94
        /\ op.c \in 32..126 => op.index = op.c - 32
        /\ op.c \notin 32..126 =>
              /\ op.index = 0
              /\ ssd1306_buffer = DrawChar(op.before, op.x, op.y, 32)

\* code 200 was drawn on the patterned buffer, as a space
C24_Witness ==
    /\ Returned("ssd1306_draw_char")
    /\ op.c = 200
    /\ op.before # ClearedBuffer
    /\ op.index = 0
    /\ ssd1306_buffer = DrawChar(op.before, op.x, op.y, 32)

---------------------------------------------------------------------------
(* C25: ssd1306_clear sets all 1024 framebuffer bytes to zero, so every     *)
(* pixel reads off afterwards, and makes no bus activity: no output level   *)
(* or pin configuration changes, and no start condition, byte or command    *)
(* is seen during the call.                                                 *)
C25_Pixel(buf, px, py) == Bit(buf[px + (py \div 8) * SSD1306_WIDTH], py % 8)

C25_Zeroed ==
    Returned("ssd1306_clear") =>
        /\ DOMAIN ssd1306_buffer = 0..1023
        /\ \A k \in 0..1023 : ssd1306_buffer[k] = 0
        /\ \A px \in 0..(SSD1306_WIDTH - 1), py \in 0..(SSD1306_HEIGHT - 1) :
              C25_Pixel(ssd1306_buffer, px, py) = 0
        /\ wire = << >>
        /\ ntrans = 0
        /\ delays = 0
        /\ cmds = << >>

C25_Step ==
    (stack = << >> /\ stack' = << >> /\ op'.fn = "ssd1306_clear") =>
        UNCHANGED << gpio_out, gpio_enable, iomux >>

C25_Clear == [][C25_Step]_vars /\ []C25_Zeroed

\* a pixel was set and shown, then the buffer cleared, with the bus idle
C25_Witness ==
    /\ Returned("ssd1306_clear")
    /\ op.before = SetPixel(ClearedBuffer, 5, 9, 1)
    /\ ssd1306_buffer = ClearedBuffer
    /\ SCL = 1 /\ SDA = 1
    /\ ntrans = 0

---------------------------------------------------------------------------
(* C26: ssd1306_set_contrast(level) issues exactly two command              *)
(* transactions, 0x81 then level; ssd1306_display_on(on) exactly one, 0xAF  *)
(* if on, else 0xAE; ssd1306_invert_display(inv) exactly one, 0xA7 if inv,  *)
(* else 0xA6.  Every transaction is complete on the bus, closed by its stop *)
(* condition, when the call returns, and no step of the three calls changes *)
(* the framebuffer.                                                         *)
C26_Calls == {"ssd1306_set_contrast", "ssd1306_display_on", "ssd1306_invert_display"}

C26_Expected ==
    CASE op.fn = "ssd1306_set_contrast"   -> << 129, op.contrast >>
      [] op.fn = "ssd1306_display_on"     -> << IF op.on THEN 175 ELSE 174 >>
      [] op.fn = "ssd1306_invert_display" -> << IF op.invert THEN 167 ELSE 166 >>

C26_Sent ==
    op.fn \in C26_Calls =>
        /\ Len(cmds) <= Len(C26_Expected)
        /\ cmds = SubSeq(C26_Expected, 1, Len(cmds))
        /\ ntrans \in {Len(cmds) - 1, Len(cmds)}
        /\ stack = << >> =>
              /\ cmds = C26_Expected
              /\ ntrans = Len(C26_Expected)
              /\ Last(wire) = EvStop
              /\ CountEv(wire, EvStart) = 1
              /\ CountEv(wire, EvStop) = 1
              /\ AllAcked =>
                    wire = WireOf(<< U8(ssd1306_i2c_addr * 2), 128,
                                     Last(C26_Expected) >>)

C26_BufferStep == op'.fn \in C26_Calls => ssd1306_buffer' = ssd1306_buffer

C26_ControlCommands == [][C26_BufferStep]_vars /\ []C26_Sent

\* the contrast was set to 207 with a pixel in the framebuffer: two
\* transactions went out, the second carrying the level
C26_Witness ==
    /\ Returned("ssd1306_set_contrast")
    /\ op.contrast = 207
    /\ ssd1306_buffer = SetPixel(ClearedBuffer, 5, 9, 1)
    /\ ntrans = 2
    /\ cmds = << 129, 207 >>
    /\ wire = << EvStart, EvByte(120, 1), EvByte(128, 1), EvByte(207, 1), EvStop >>

---------------------------------------------------------------------------
(* C27: i2c_init sets the per-half-bit delay to (160000000 / freq_hz) / 4   *)
(* in truncating unsigned division (100 for 400000 Hz, 400 for 100000 Hz)   *)
(* and returns with both SDA and SCL released high; afterwards no bus       *)
(* operation changes the delay count or the pin assignment.                 *)
C27_Config == IF stack # << >> THEN stack[Len(stack)].config ELSE op.config

\* d is the quotient q of 160000000 by f, divided by 4, both truncated
C27_Truncated(d, f) ==
    \E q \in (4 * d)..(4 * d + 3) : q * f <= 160000000 /\ 160000000 - q * f < f

C27_Delay ==
    (op.fn = "i2c_init" /\ (stack = << >> \/ Top.pc > 1)) =>
        /\ C27_Truncated(i2c_delay_cycles, C27_Config.freq_hz)
        /\ C27_Config.freq_hz = 400000 => i2c_delay_cycles = 100
        /\ C27_Config.freq_hz = 100000 => i2c_delay_cycles = 400
        /\ scl_gpio = C27_Config.scl_pin
        /\ sda_gpio = C27_Config.sda_pin
        /\ stack = << >> => (SCL = 1 /\ SDA = 1)

C27_KeptStep ==
    ~(stack # << >> /\ Top.fn = "i2c_init") =>
        UNCHANGED << i2c_delay_cycles, scl_gpio, sda_gpio >>

---------------------------------------------------------------------------
(* C28: before any transaction is started on the bus, the clock pin and the *)
(* data pin are distinct pins and both have been configured for open-drain  *)
(* output (GPIO function selected, input sense and weak pull-up enabled,    *)
(* pull-down disabled, output enabled), for every configuration i2c_init    *)
(* takes.                                                                   *)
C28_OpenDrain(pin) ==
    /\ pin \in 0..21
    /\ iomux[pin].mcu_sel = 1
    /\ iomux[pin].fun_ie = 1
    /\ iomux[pin].fun_wpu = 1
    /\ iomux[pin].fun_wpd = 0
    /\ pin \in gpio_enable

C28_Started == (stack # << >> /\ Top.fn = "i2c_start") \/ ntrans > 0

C28_PinsReady ==
    C28_Started =>
        /\ scl_gpio # sda_gpio
        /\ C28_OpenDrain(scl_gpio)
        /\ C28_OpenDrain(sda_gpio)

---------------------------------------------------------------------------
(* C30: gpio_set_opendrain and gpio_set_output called with a pin index      *)
(* outside 0..21 return without reading or writing any IO-MUX or GPIO       *)
(* register and without reporting anything; called with an index in 0..21   *)
(* they configure that pin: GPIO function and medium drive selected, output *)
(* enabled, and for gpio_set_opendrain input sense and weak pull-up on,     *)
(* pull-down off.  No other pin is touched.                                 *)
C30_Calls == {"gpio_set_opendrain", "gpio_set_output"}

C30_Configured ==
    Returned("gpio_set_opendrain") \/ Returned("gpio_set_output") =>
        IF op.n \in 0..21
        THEN /\ gpio_enable = op.before.gpio_enable \cup {op.n}
             /\ iomux[op.n].mcu_sel = 1
             /\ iomux[op.n].fun_drv = 2
             /\ IF op.fn = "gpio_set_opendrain"
                THEN /\ iomux[op.n].fun_ie = 1
                     /\ iomux[op.n].fun_wpu = 1
                     /\ iomux[op.n].fun_wpd = 0
                ELSE /\ iomux[op.n].fun_ie = op.before.iomux[op.n].fun_ie
                     /\ iomux[op.n].fun_wpu = op.before.iomux[op.n].fun_wpu
                     /\ iomux[op.n].fun_wpd = op.before.iomux[op.n].fun_wpd
             /\ \A p \in 0..21 : p # op.n => iomux[p] = op.before.iomux[p]
             /\ Len(op.accesses) = 4
        ELSE /\ gpio_enable = op.before.gpio_enable
             /\ iomux = op.before.iomux
             /\ op.accesses = << >>

C30_Step ==
    op'.fn \in C30_Calls => UNCHANGED << gpio_out, stack, ret, wire, ntrans >>

C30_OutOfRangeIgnored == [][C30_Step]_vars /\ []C30_Configured

\* after i2c_init on pins 7 and 6, gpio_set_output(22) left the registers as
\* they were
C30_Witness ==
    /\ Returned("gpio_set_output")
    /\ op.n = 22
    /\ op.accesses = << >>
    /\ gpio_enable = {6, 7}
    /\ iomux[7] = MuxOpenDrain
    /\ iomux[22 - 1] = MuxReset

---------------------------------------------------------------------------
(* C29: setting or clearing a pin's output level is one write of a          *)
(* single-bit mask to the write-1-to-set or write-1-to-clear register, with *)
(* no read of the output register; so in every interleaving of the set and  *)
(* clear operations on different pins each pin is at the level of its own   *)
(* last operation, and an operation on one pin never changes the level of   *)
(* another pin.                                                             *)
C29_Levels == \A q \in 0..21 : Level(gpio_out, q) = op.last[q]

C29_OwnLevel ==
    /\ C29_Levels
    /\ stack # << >> =>
          /\ Len(Top.todo) <= 1
          /\ \A k \in 1..Len(Top.todo) :
                /\ Top.todo[k][1] = "write"
                /\ Top.todo[k][2] \in {"GPIO_OUT_W1TS_REG", "GPIO_OUT_W1TC_REG"}
                /\ Top.todo[k][3] = {Top.gpio_num}

C29_Step ==
    \A q \in 0..21 : q # op'.pin => Level(gpio_out', q) = Level(gpio_out, q)

C29_NoRace == [][C29_Step]_vars /\ []C29_OwnLevel

\* the bus driver pulled SCL low while gpio_set_high(8) was about to write:
\* pin 8 went high and SCL stayed low
C29_Witness ==
    /\ stack = << >>
    /\ scl_gpio = 7
    /\ op.pin = 8
    /\ gpio_out = {6, 8}
    /\ op.last[7] = 0
    /\ op.last[8] = 1

---------------------------------------------------------------------------
(* C38: after any sequence of console_putc and console_puts calls,          *)
(* 0 <= buffer_pos < 64 whenever a console operation returns, so            *)
(* console_putc writes inside the 64-byte buffer; the buffer is handed to   *)
(* the hardware exactly when a character makes it full (64 characters) or   *)
(* console_puts ends with characters in it, and a flush of the empty buffer *)
(* writes nothing to the hardware.                                          *)
C38_InRange ==
    /\ buffer_pos \in 0..63
    /\ DOMAIN buffer = 0..63

C38_Step ==
    LET putc    == Len(op'.passed) = Len(op.passed) + 1
        closing == stack # << >> /\ stack' = << >>
        full    == putc /\ buffer_pos = 63
        n       == IF full THEN 64 ELSE buffer_pos
    IN  /\ fifo' # fifo <=> (full \/ (closing /\ buffer_pos > 0))
        /\ fifo' # fifo =>
              /\ fifo' = fifo \o [i \in 1..n |-> << "EP1", buffer'[i - 1] >>]
                              \o << << "WR_DONE" >> >>
              /\ buffer_pos' = 0
        /\ putc =>
              /\ buffer_pos \in 0..63
              /\ buffer' = [buffer EXCEPT ![buffer_pos] = Last(op'.passed)]
              /\ ~full => buffer_pos' = buffer_pos + 1
        /\ ~putc => buffer' = buffer
        /\ (closing /\ buffer_pos = 0) => (fifo' = fifo /\ buffer_pos' = 0)

C38_BufferBounds == [][C38_Step]_vars /\ []C38_InRange

\* the 33rd character of a 70-character string has just filled the buffer,
\* which held 31 characters before the call: it was flushed in mid-string
C38_Witness ==
    /\ stack # << >>
    /\ Top.fn = "console_puts"
    /\ Top.str = Long70
    /\ Top.i = 2
    /\ buffer_pos = 0
    /\ Len(fifo) = 65
    /\ Last(fifo) = << "WR_DONE" >>

---------------------------------------------------------------------------
(* C39: the bytes written to the USB transmit FIFO register are exactly the *)
(* characters passed to console_putc, in call order, each once: what was    *)
(* passed is what the FIFO received followed by what waits in the buffer,   *)
(* across flushes and with a flush in the middle of a string; after         *)
(* console_puts nothing waits.  console_puts passes a '\r' immediately      *)
(* before every '\n' of its argument, and nothing else besides its          *)
(* argument.                                                                *)
C39_Ep1(f) == SelectSeq(f, LAMBDA e : e[1] = "EP1")

C39_Bytes(f) == [k \in 1..Len(C39_Ep1(f)) |-> C39_Ep1(f)[k][2]]

C39_Waiting == [k \in 1..buffer_pos |-> buffer[k - 1]]

C39_NotCr(ch) == ch # 13

C39_InOrder ==
    /\ C39_Bytes(fifo) \o C39_Waiting = op.passed
    /\ (stack = << >> /\ op.fn = "console_puts") =>
          LET p == SubSeq(op.passed, op.start + 1, Len(op.passed))
          IN  /\ buffer_pos = 0
              /\ C39_Bytes(fifo) = op.passed
              /\ SelectSeq(p, C39_NotCr) = op.str
              /\ \A k \in 1..Len(p) :
                    /\ p[k] = 10 => (k > 1 /\ p[k - 1] = 13)
                    /\ p[k] = 13 => (k < Len(p) /\ p[k + 1] = 10)

\* 63 characters waited when console_puts was given 63 characters and a line
\* feed: two flushes of a full buffer came in mid-string and none at the end
C39_Witness ==
    /\ stack = << >>
    /\ op.fn = "console_puts"
    /\ op.str = Line63
    /\ op.start = 63
    /\ Len(op.passed) = 128
    /\ C39_Bytes(fifo) = op.passed
    /\ Len(fifo) = 130
---------------------------------------------------------------------------
(* C36: after any sequence of shell_process_char calls 0 <= input_pos <= 63 *)
(* and input_buffer[input_pos] is the NUL terminator; a printable character *)
(* that arrives when 63 characters are buffered is dropped, neither stored  *)
(* nor echoed; backspace or DEL on an empty line, and any non-printable     *)
(* character other than BS, DEL, CR and LF, leave the shell state unchanged.*)
C36_Terminated ==
    /\ input_pos \in 0..63
    /\ DOMAIN input_buffer = 0..63
    /\ input_buffer[input_pos] = 0
    /\ \A k \in 0..(input_pos - 1) : input_buffer[k] \in 32..126

C36_Printable(c) == c >= 32 /\ c <= 126

C36_Step ==
    At("shell_process_char", 1) =>
        LET c      == Top.c
            nothing == /\ UNCHANGED << app, ssd1306_buffer >>
                       /\ op'.passed = op.passed
                       /\ stack' = Tail(stack)
        IN  /\ (C36_Printable(c) /\ input_pos = 63) => nothing
            /\ (c \in {8, 127} /\ input_pos = 0) => nothing
            /\ (~C36_Printable(c) /\ c \notin {8, 127, 13, 10}) => nothing
            /\ (C36_Printable(c) /\ input_pos < 63) =>
                  /\ input_pos' = input_pos + 1
                  /\ CStr(input_buffer') = Append(CStr(input_buffer), c)
            /\ (c \in {8, 127} /\ input_pos > 0) =>
                  /\ input_pos' = input_pos - 1
                  /\ CStr(input_buffer') = SubSeq(CStr(input_buffer), 1, input_pos - 1)

C36_InputLine == [][C36_Step]_vars /\ []C36_Terminated

\* a letter arrived at a line of 63 characters and changed nothing
C36_Witness ==
    /\ stack = << >>
    /\ op.keylog = << 120 >>
    /\ op.before.input_pos = 63
    /\ input_pos = 63
    /\ Len(CStr(input_buffer)) = 63
    /\ Con = op.before.console

---------------------------------------------------------------------------
(* C37: on '\n' or '\r' shell_process_char executes the buffered line       *)
(* exactly once if and only if it is non-empty, then prints exactly one ">" *)
(* prompt line and resets input_pos to 0; a second terminator arriving      *)
(* right after the first (CR then LF) does not execute the command again.   *)
C37_Executes(log) == SelectSeq(log, LAMBDA e : e[1] = "execute")

C37_LineEnd ==
    (stack = << >> /\ op.keys > 0 /\ Last(op.keylog) \in {13, 10}) =>
        /\ input_pos = 0
        /\ input_buffer[0] = 0
        /\ op.log # << >>
        /\ Last(op.log) = << "print", Str_prompt >>
        /\ IF op.typed # << >>
           THEN /\ C37_Executes(op.log) = << << "execute", op.typed >> >>
                /\ op.log[1] = << "execute", op.typed >>
           ELSE op.log = << << "print", Str_prompt >> >>

\* no step but the one of shell_process_char at a line end calls shell_execute
C37_Step ==
    (stack' # << >> /\ stack' # stack /\ Head(stack').fn = "shell_execute"
       /\ Len(stack') > Len(stack)) =>
        /\ At("shell_process_char", 1)
        /\ Top.c \in {13, 10}
        /\ input_pos > 0
        /\ Head(stack').cmdline = CStr(input_buffer)

C37_ExecuteOnce == [][C37_Step]_vars /\ []C37_LineEnd

\* "help", CR, LF: the line was executed at the CR and only the prompt was
\* printed at the LF
C37_Witness ==
    /\ stack = << >>
    /\ op.first = Str_help
    /\ op.keylog = << 13, 10 >>
    /\ op.typed = << >>
    /\ op.log = << << "print", Str_prompt >> >>
    /\ Len(op.prints) = Len(InitPrints) + 7
---------------------------------------------------------------------------
(* C35: after any sequence of shell_print calls that follows shell_init or  *)
(* shell_clear, current_line is at most 8 and display_lines[0 ..            *)
(* current_line-1] hold the most recent min(n, 8) printed texts in print    *)
(* order, each cut to 21 characters and NUL-terminated; a print when 8      *)
(* lines are present discards the oldest line and moves the others up by    *)
(* one.                                                                     *)
C35_Cut(text) == SubSeq(text, 1, IF Len(text) < 21 THEN Len(text) ELSE 21)

C35_Kept == IF Len(op.prints) < 8 THEN Len(op.prints) ELSE 8

C35_Lines ==
    /\ current_line <= 8
    /\ current_line = C35_Kept
    /\ \A i \in 0..(current_line - 1) :
          /\ DOMAIN display_lines[i] = 0..21
          /\ \E n \in 0..21 : display_lines[i][n] = 0
          /\ CStr(display_lines[i]) = C35_Cut(op.prints[Len(op.prints) - current_line + i + 1])

C35_Step ==
    (Len(op'.prints) = Len(op.prints) + 1 /\ current_line = 8) =>
        /\ current_line' = 8
        /\ \A i \in 0..6 : CStr(display_lines'[i]) = CStr(display_lines[i + 1])
        /\ CStr(display_lines'[7]) = C35_Cut(Last(op'.prints))

C35_Scrollback == [][C35_Step]_vars /\ []C35_Lines

\* help was executed on the three lines of shell_init: nine texts were
\* printed, the oldest is gone and the 22 characters of the clear line are cut
C35_Witness ==
    /\ stack = << >>
    /\ Len(op.prints) = 9
    /\ current_line = 8
    /\ CStr(display_lines[0]) = Str_hint
    /\ Len(op.prints[7]) = 22
    /\ Len(CStr(display_lines[5])) = 21
    /\ CStr(display_lines[7]) = Str_prompt

---------------------------------------------------------------------------
(* C32: shell_execute runs the handler of help, clear or echo exactly when  *)
(* the first space-delimited token of the line (leading spaces skipped)     *)
(* equals that name exactly, and at most one handler per line; for any      *)
(* other non-empty first token it prints "command unknown: " followed by    *)
(* the token, on one display line if that fits in 21 characters and split   *)
(* over two otherwise; a line of spaces only runs no handler.               *)
C32_Least(S) == CHOOSE k \in S : \A j \in S : k <= j

C32_Token(line) ==
    LET marks == {k \in 1..Len(line) : line[k] # 32}
    IN  IF marks = {} THEN << >>
        ELSE LET s == C32_Least(marks)
                 e == C32_Least({k \in s..(Len(line) + 1) :
                                   k = Len(line) + 1 \/ line[k] = 32})
             IN  SubSeq(line, s, e - 1)

C32_Handlers(log) == SelectSeq(log, LAMBDA e : e[1] = "handler")

C32_Prints(log) == SelectSeq(log, LAMBDA e : e[1] = "print")

C32_Name(h) ==
    IF h = "cmd_help" THEN Str_help ELSE IF h = "cmd_clear" THEN Str_clear ELSE Str_echo

C32_Dispatch ==
    (stack = << >> /\ op.keys > 0 /\ C37_Executes(op.log) # << >>) =>
        LET token    == C32_Token(op.typed)
            handlers == C32_Handlers(op.log)
            prints   == C32_Prints(op.log)
            known    == token \in {Str_help, Str_clear, Str_echo}
        IN  /\ Len(handlers) <= 1
            /\ known <=> handlers # << >>
            /\ known => C32_Name(handlers[1][2]) = token
            /\ \A h \in {"cmd_help", "cmd_clear", "cmd_echo"} :
                  (handlers # << >> /\ handlers[1][2] = h) <=> token = C32_Name(h)
            /\ token = << >> => Len(op.log) = 3
            /\ (token # << >> /\ ~known) =>
                  IF Len(Str_prefix) + Len(token) <= 21
                  THEN /\ Len(prints) = 3
                       /\ prints[2] = << "print", Str_prefix \o token >>
                  ELSE /\ Len(prints) = 4
                       /\ prints[2] = << "print", Str_prefix >>
                       /\ prints[3] = << "print", token >>

\* " echo  a b " was executed: the echo handler ran, alone, with the
\* arguments a and b
C32_Witness ==
    /\ stack = << >>
    /\ op.keylog = << 13 >>
    /\ C32_Token(op.typed) = Str_echo
    /\ Head(op.typed) = 32
    /\ Len(C32_Handlers(op.log)) = 1
    /\ C32_Handlers(op.log)[1][2] = "cmd_echo"
    /\ C32_Handlers(op.log)[1][3] = << Str_echo, << 97 >>, << 98 >> >>
    /\ C32_Prints(op.log)[2] = << "print", << 97, 32, 98 >> >>

---------------------------------------------------------------------------
(* C40: the characters shell_process_char echoes (typed printable           *)
(* characters and the backspace sequence) are placed in the console's       *)
(* software buffer by console_putc; each of them has been written to the    *)
(* USB FIFO, in typing order, by the time the processing of the next line   *)
(* terminator returns, whose shell_print flushes the buffer; after          *)
(* console_puts returns the software buffer is empty.                       *)
C40_Flushed ==
    /\ C39_Bytes(fifo) \o C39_Waiting = op.passed
    /\ (stack = << >> /\ op.keys > 0 /\ Last(op.keylog) \in {13, 10}) =>
          /\ buffer_pos = 0
          /\ C39_Bytes(fifo) = op.passed

C40_Step ==
    /\ At("shell_process_char", 1) =>
          LET c == Top.c
          IN  /\ (C36_Printable(c) /\ input_pos < 63) =>
                    /\ op'.passed = Append(op.passed, c)
                    /\ buffer' = [buffer EXCEPT ![buffer_pos] = c]
                    /\ fifo' # fifo <=> buffer_pos = 63
              /\ (c \in {8, 127} /\ input_pos > 0) =>
                    op'.passed = op.passed \o << 8, 32, 8 >>
    /\ (stack # << >> /\ Top.fn = "shell_print") =>
          /\ buffer_pos' = 0
          /\ C39_Bytes(fifo') = op'.passed

C40_EchoReachesFifo == [][C40_Step]_vars /\ []C40_Flushed

\* a backspace and then CR arrived at a line of 63 characters: the buffer
\* filled up in the middle of the backspace sequence, and all of it is in the
\* FIFO when the CR has been processed
C40_Witness ==
    /\ stack = << >>
    /\ op.keylog = << 8, 13 >>
    /\ Len(op.first) = 63
    /\ buffer_pos = 0
    /\ C39_Bytes(fifo) = op.passed
    /\ \E k \in 1..Len(op.passed) :
          SubSeq(op.passed, k, k + 3) = << 8, 32, 8, 10 >>
    /\ \E k \in 1..(Len(fifo) - 2) :
          /\ fifo[k] = << "EP1", 8 >>
          /\ fifo[k + 1] = << "WR_DONE" >>
          /\ fifo[k + 2] = << "EP1", 32 >>
---------------------------------------------------------------------------
(* C34: every character ssd1306_draw_string draws on a row has all 5 of its *)
(* glyph columns inside the columns 0..127: the wrap comes before a glyph   *)
(* would be cut by the right edge, so a row started at x = 0 holds at most  *)
(* 21 characters.  Stated for the calls with x = 0, where no character      *)
(* starts cut by the caller's choice of x.                                  *)
C34_NeverCut ==
    (op.fn = "ssd1306_draw_string" /\ op.x = 0) =>
        /\ \A k \in 1..Len(op.chars) :
              /\ op.chars[k][1] >= 0
              /\ op.chars[k][1] + 4 <= SSD1306_WIDTH - 1
        /\ \A row \in {op.chars[k][2] : k \in 1..Len(op.chars)} :
              Cardinality({k \in 1..Len(op.chars) : op.chars[k][2] = row}) <= 21
---------------------------------------------------------------------------
(* C31: in the boot flow of app_main, i2c_init configures both pins and     *)
(* releases the lines before the first start condition on the bus; all      *)
(* bring-up commands are issued before the first framebuffer data-stream    *)
(* transaction; any drawing or full-buffer transfer requested by the shell  *)
(* happens only after ssd1306_init has returned; i2c_init runs exactly once.*)
C31_OnStack(f) == \E k \in 1..Len(stack) : stack[k].fn = f

C31_Main == stack[Len(stack)]

C31_Pushes(f) ==
    /\ Len(stack') = Len(stack) + 1
    /\ Head(stack').fn = f

C31_Configured ==
    /\ scl_gpio = OledConfig.scl_pin
    /\ sda_gpio = OledConfig.sda_pin
    /\ iomux[scl_gpio] = MuxOpenDrain
    /\ iomux[sda_gpio] = MuxOpenDrain
    /\ {scl_gpio, sda_gpio} \subseteq gpio_enable
    /\ i2c_delay_cycles = DelayCycles(SSD1306_FREQ_HZ)

C31_ShellDraws ==
    \/ \E f \in {"shell_init", "shell_print", "shell_refresh_display",
                 "shell_process_char", "ssd1306_draw_string"} : C31_OnStack(f)
    \/ (C31_OnStack("ssd1306_display") /\ ~C31_OnStack("ssd1306_init"))

C31_Order ==
    /\ stack # << >>
    /\ C31_Main.fn = "app_main"
    /\ (ntrans > 0 \/ wire # << >> \/ C31_OnStack("i2c_start")) =>
          (C31_Configured /\ ~C31_OnStack("i2c_init"))
    /\ At("i2c_start", 1) => (SCL = 1 /\ SDA = 1)
    /\ (C31_Main.pc >= 3 /\ ~At("ssd1306_init", 0) /\ ~C31_OnStack("i2c_init")) =>
          C31_Configured
    /\ C31_ShellDraws =>
          /\ op.oled # "none"
          /\ ~C31_OnStack("ssd1306_init")
          /\ C31_Main.pc >= 5
          /\ Len(cmds) >= Len(InitCmds) + Len(DisplayCmds)

C31_Step ==
    /\ C31_Pushes("i2c_init") =>
          /\ At("ssd1306_init", 0)
          /\ Len(stack) = 2
          /\ i2c_delay_cycles = 0
          /\ gpio_enable = {}
          /\ ntrans = 0 /\ wire = << >>
    /\ C31_Pushes("ssd1306_init") => (At("app_main", 2) /\ op.oled = "none")
    /\ hw' # hw => (stack # << >> /\ Top.fn = "i2c_init")
    /\ C31_Pushes("ssd1306_send_data") =>
          /\ Len(cmds) >= Len(InitCmds) + Len(DisplayCmds)
          /\ SubSeq(cmds, 1, Len(InitCmds)) = InitCmds
          /\ SubSeq(cmds, Len(cmds) - Len(DisplayCmds) + 1, Len(cmds)) = DisplayCmds
    /\ ssd1306_buffer' # ssd1306_buffer =>
          \/ At("ssd1306_init", Len(InitCmds) + 1)
          \/ (op.oled # "none" /\ Top.fn \in {"shell_refresh_display", "ssd1306_draw_string"})
    /\ C31_Main'.pc >= C31_Main.pc

C31_BootOrder == [][C31_Step]_vars /\ []C31_Order

\* the main loop after one CR: the bring-up and four refreshes of the shell
\* have been sent, here with no device attached, and the framebuffer holds
\* the lines
C31_Witness ==
    /\ stack # << >>
    /\ At("app_main", 6)
    /\ op.device = "absent"
    /\ op.keylog = << 13 >>
    /\ C31_Configured
    /\ Len(cmds) = Len(InitCmds) + 5 * Len(DisplayCmds)
    /\ ssd1306_buffer = Refreshed(display_lines)
    /\ ssd1306_buffer # ClearedBuffer

---------------------------------------------------------------------------
(* C33: ssd1306_init returns true on every execution, also when no byte is  *)
(* ever acknowledged (no display attached): the results of all command and  *)
(* data transactions are discarded, and app_main never takes its "OLED      *)
(* initialization failed!" branch.                                          *)
C33_Step ==
    (stack # << >> /\ Top.fn = "ssd1306_init" /\ Len(stack') < Len(stack)) => ret'

\* console_puts was given the text: its characters are among those passed on
C33_Said(text) ==
    LET t == PutsPasses(text)
    IN  \E k \in 1..(Len(op.passed) - Len(t) + 1) :
           op.passed[k] = t[1] /\ SubSeq(op.passed, k, k + Len(t) - 1) = t

C33_Branch ==
    /\ op.oled # "failed"
    /\ (stack # << >> /\ C31_Main.pc >= 4) => op.oled = "ok"
    /\ ~C33_Said(Str_oled_failed)

C33_AlwaysTrue == [][C33_Step]_vars /\ []C33_Branch

\* no display attached: every address byte went unacknowledged and app_main
\* has said that the display is initialized
C33_Witness ==
    /\ stack # << >>
    /\ C31_Main.pc >= 4
    /\ op.device = "absent"
    /\ op.oled = "ok"
    /\ ntrans > 0
    /\ C33_Said(Str_oled_ok)
===========================================================================
